---- MODULE Spec2Model ----
(***************************************************************************)
(* Model of the OpenAI Responses adapter of adk-go (package model/openai),  *)
(* and of the agent tree and the runner it is used by.                     *)
(*                                                                         *)
(*   - the call tracker of the request builder (callTracker,              *)
(*     newFunctionCall, newFunctionResponse);                              *)
(*   - the stream translator (streamTranslator.process, buffer,           *)
(*     emitFunctionCall, singlePartResponse);                              *)
(*   - the streaming generate path (openAIModel.generateStream);          *)
(*   - the request builder (buildOpenAIParams, convertContents,           *)
(*     convertTools, convertToolChoice) and the response converter        *)
(*     (convertResponse);                                                  *)
(*   - the entry point (openAIModel.GenerateContent, generate);           *)
(*   - the agent tree (agent.New, isTransferableAcrossAgentTree) and      *)
(*     the runner (Runner.Run).                                            *)
(*                                                                         *)
(* Text is modelled as a sequence of characters, so that concatenation is  *)
(* \o and the empty string is << >>.  Identifiers (call IDs, item IDs,     *)
(* names) are TLA+ strings, "" being the absent identifier.                *)
(***************************************************************************)
EXTENDS Integers, Sequences, FiniteSets, TLC

VARIABLES
    \* callTracker (src/unnamed/part_000:203-206)
    nextID,         \* callTracker.nextID
    pending,        \* callTracker.pending
    items,          \* the call / call-output items emitted so far
    trackerOp,      \* the last tracker operation: its input, result and pre-state
    nOps,           \* the number of tracker operations so far
    pendingOrigin,  \* history: for each pending entry, whether the tracker generated it
    \* streamTranslator (src/model/openai/stream.go:28-30)
    functionArgs,   \* streamTranslator.functionArgs: item id -> buffered text
    processOp,      \* the last call of process: its event and result
    received,       \* history: per item id, the argument deltas received for it
                    \* since its last arguments-done event, concatenated
    \* openAIModel.generateStream (src/model/openai/doc.go:114-159)
    pc,             \* where generateStream stands
    aggregator,     \* the streaming response aggregator
    queue,          \* what aggregator.ProcessResponse has still to yield
    out,            \* the items yielded to the consumer, in order
    fed,            \* history: the events stream.Current() has returned
    micro,          \* history: the micro-responses process has returned
    exhausted,      \* "no", or how stream.Next() ended: "ok" / "err" (stream.Err())
    closed,         \* "no", or how stream.Close() returned: "ok" / "err"
    flushCount,     \* the number of calls of aggregator.Close()
    final,          \* what aggregator.Close() returned
    stopped,        \* "no", or where the consumer's yield has returned false:
                    \* "error" (on an error item), "loop" (doc.go:142), "final"
    \* convertContents (src/unnamed/part_000:84-150)
    contents,       \* history: the content blocks the loop has ranged over
    conv,           \* the locals of convertContents: items, tracker, textParts,
                    \* curRole, and err, the error it returns ("" for nil)
    convPc,         \* "loop" between two content blocks, "parts" inside one,
                    \* "done" once convertContents has returned
    \* convertTools, convertToolChoice (src/model/openai/tools.go)
    toolsOp,        \* the call of convertTools: its cfg and what it returned
    choiceOp,       \* the call of convertToolChoice: its toolCfg and what it returned
    \* buildOpenAIParams (src/unnamed/part_000:32-82)
    buildOp,        \* the call of buildOpenAIParams: its request and what it returned
    \* convertResponse (src/unnamed/part_002:27-42)
    responseOp,     \* the call of convertResponse: its response and what it returned
    \* openAIModel.GenerateContent (src/model/openai/doc.go:82-112)
    newOp,          \* the call of NewModel: its arguments and what it returned
    genOp,          \* the call of GenerateContent: its request, its stream flag,
                    \* whether buildOpenAIParams was called, and the error before
                    \* the vendor call ("" for nil)
    vendorCalls,    \* history: the number of calls of m.client.Responses.New and
                    \* m.client.Responses.NewStreaming
    \* two requests in conversion and two streams in translation at once
    calls,          \* per call of convertContents: the parts ranged over so far
                    \* and the locals of the call (part_000:85-89)
    streams,        \* per call of generateStream: its translator (doc.go:127), the
                    \* events fed to it and what process returned for each
    \* the agent tree (src/unnamed/part_004:40-61, 108-122)
    agents,         \* the agent objects made so far, in order of allocation
    agentOp,        \* the last call of New or isTransferableAcrossAgentTree
    \* Runner.Run (src/runner/runner.go:47-108)
    runPc,          \* where Run stands: "start", "agent" (in the loop), "done"
    runLog,         \* history: the calls of SessionService.AppendEvent that
                    \* succeeded and the calls of yield, in order
    arrived         \* history: what agentToRun.Run has yielded, in order

runnerVars == <<agents, agentOp, runPc, runLog, arrived>>
trackerVars == <<nextID, pending, items, trackerOp, nOps, pendingOrigin>>
translatorVars == <<functionArgs, processOp, received>>
streamVars ==
    <<pc, aggregator, queue, out, fed, micro, exhausted, closed, flushCount, final, stopped>>
convertVars == <<contents, conv, convPc>>
toolVars == <<toolsOp, choiceOp>>
\* the variables of the request and response converters and of
\* GenerateContent, and all variables but those of one converter
converterVars == <<convertVars, toolVars, buildOp, responseOp, genOp, newOp, vendorCalls, calls, streams, runnerVars>>
exceptConvert ==
    <<trackerVars, translatorVars, streamVars, toolVars, buildOp, responseOp, genOp, newOp, vendorCalls, calls, streams, runnerVars>>
exceptTools ==
    <<trackerVars, translatorVars, streamVars, convertVars, buildOp, responseOp, genOp, newOp, vendorCalls, calls, streams, runnerVars>>
vars ==
    <<nextID, pending, items, trackerOp, nOps, pendingOrigin, functionArgs, processOp, received,
      pc, aggregator, queue, out, fed, micro, exhausted, closed, flushCount, final, stopped,
      contents, conv, convPc, toolsOp, choiceOp, buildOp, responseOp, genOp, newOp, vendorCalls, calls, streams, runnerVars>>

----------------------------------------------------------------------------
(* Bounds of the model *)

\* the number of parts and events of the instances that are under way together
MaxSteps == 4
\* the number of agent objects made, and of sub-agents listed in one Config
MaxAgents == 3
MaxSubAgents == 2
\* the number of tracker operations of one run
MaxOps == 4
\* the length to which one argument buffer may grow
MaxBuf == 4
\* the number of events one stream delivers
MaxEvents == 3
\* the number of content blocks of one request
MaxContents == 2
\* the number of parts of one request, over all its content blocks
MaxParts == 3
\* the number of tools of one configuration
MaxTools == 2
\* the number of allowed function names of one tool configuration
MaxNames == 3
\* the number of output items of one vendor response
MaxOutput == 2

----------------------------------------------------------------------------
(* Call tracker: src/unnamed/part_000:200-273 *)

\* fmt.Sprintf("adk-openai-call-%d", t.nextID)
GenID(n) == "adk-openai-call-" \o ToString(n)

\* the explicit call IDs requests carry; the last one has the shape of a
\* generated ID, which nothing forbids a caller to send
CallIDs ==
    LET ExplicitIDs == {"a", "adk-openai-call-0"}
    IN  {""} \cup ExplicitIDs

\* genai.FunctionCall as newFunctionCall reads it; marshalFails is whether
\* json.Marshal rejects fc.Args
FunctionCalls == [Name : {"", "lookup"}, ID : CallIDs, marshalFails : BOOLEAN]
\* genai.FunctionResponse as newFunctionResponse reads it
FunctionResponses == [Name : {"lookup"}, ID : CallIDs, marshalFails : BOOLEAN]

\* index of the first entry of s equal to id, 0 when there is none
IndexOf(s, id) ==
    IF \E i \in 1..Len(s) : s[i] = id
    THEN CHOOSE i \in 1..Len(s) : s[i] = id /\ \A j \in 1..(i - 1) : s[j] # id
    ELSE 0

\* append(s[:i], s[i+1:]...) with the 0-based i of the code being i - 1 here
RemoveAt(s, i) == SubSeq(s, 1, i - 1) \o SubSeq(s, i + 1, Len(s))

NoCallID == ""

\* a faulty variant of newFunctionCall: the ID is generated and registered
\* before the name is checked
newFunctionCallIDFirst(t, fc) ==
    LET callID == IF fc.ID = "" THEN GenID(t.nextID) ELSE fc.ID
        next == IF fc.ID = "" THEN t.nextID + 1 ELSE t.nextID
    IN  [nextID |-> next, pending |-> Append(t.pending, callID),
         err |-> IF fc.Name = "" THEN "ErrFunctionCallMissingName"
                 ELSE IF fc.marshalFails THEN "marshal function args" ELSE "",
         callID |-> IF fc.Name = "" THEN NoCallID ELSE callID]

\* a faulty variant of newFunctionCall: a generated ID is handed out but not
\* registered as pending
newFunctionCallUnregistered(t, fc) ==
    IF fc.Name = ""
    THEN [nextID |-> t.nextID, pending |-> t.pending,
          err |-> "ErrFunctionCallMissingName", callID |-> NoCallID]
    ELSE LET callID == IF fc.ID = "" THEN GenID(t.nextID) ELSE fc.ID
             next == IF fc.ID = "" THEN t.nextID + 1 ELSE t.nextID
         IN  [nextID |-> next,
              pending |-> IF fc.ID = "" THEN t.pending ELSE Append(t.pending, callID),
              err |-> IF fc.marshalFails THEN "marshal function args" ELSE "",
              callID |-> callID]

\* callTracker.newFunctionCall: the tracker after the call and what it
\* returns; callID is the local variable of that name, err = "" is a nil error
newFunctionCall(t, fc) ==
    IF fc.Name = ""
    THEN [nextID |-> t.nextID, pending |-> t.pending,
          err |-> "ErrFunctionCallMissingName", callID |-> NoCallID]
    ELSE LET callID == IF fc.ID = "" THEN GenID(t.nextID) ELSE fc.ID
             next == IF fc.ID = "" THEN t.nextID + 1 ELSE t.nextID
         IN  [nextID |-> next, pending |-> Append(t.pending, callID),
              err |-> IF fc.marshalFails THEN "marshal function args" ELSE "",
              callID |-> callID]

\* a faulty variant of newFunctionResponse: the call that is answered stays
\* pending
newFunctionResponseKeepsPending(t, fr) ==
    LET i == IF fr.ID = "" THEN (IF Len(t.pending) = 0 THEN 0 ELSE 1)
             ELSE IndexOf(t.pending, fr.ID)
    IN  IF i = 0
        THEN [nextID |-> t.nextID, pending |-> t.pending,
              err |-> IF fr.ID = "" THEN "missing call id" ELSE "unknown call id",
              callID |-> NoCallID]
        ELSE [nextID |-> t.nextID, pending |-> t.pending,
              err |-> IF fr.marshalFails THEN "marshal function response" ELSE "",
              callID |-> t.pending[i]]

\* a faulty variant of newFunctionResponse: a response without ID that finds
\* no pending call is given a fresh generated ID
newFunctionResponseOrphan(t, fr) ==
    IF fr.ID = "" /\ Len(t.pending) = 0
    THEN [nextID |-> t.nextID + 1, pending |-> t.pending,
          err |-> IF fr.marshalFails THEN "marshal function response" ELSE "",
          callID |-> GenID(t.nextID)]
    ELSE LET i == IF fr.ID = "" THEN 1 ELSE IndexOf(t.pending, fr.ID)
         IN  IF i = 0
             THEN [nextID |-> t.nextID, pending |-> t.pending,
                   err |-> "unknown call id", callID |-> NoCallID]
             ELSE [nextID |-> t.nextID, pending |-> RemoveAt(t.pending, i),
                   err |-> IF fr.marshalFails THEN "marshal function response" ELSE "",
                   callID |-> t.pending[i]]

\* a faulty variant of newFunctionResponse: an unknown explicit ID falls back to the
\* oldest pending call instead of failing
newFunctionResponseFallback(t, fr) ==
    LET i == IF fr.ID = "" THEN 1 ELSE IndexOf(t.pending, fr.ID)
        k == IF i = 0 THEN 1 ELSE i
    IN  IF Len(t.pending) = 0
        THEN [nextID |-> t.nextID, pending |-> t.pending,
              err |-> "missing call id", callID |-> NoCallID]
        ELSE [nextID |-> t.nextID, pending |-> RemoveAt(t.pending, k),
              err |-> IF fr.marshalFails THEN "marshal function response" ELSE "",
              callID |-> t.pending[k]]

\* a faulty variant of newFunctionResponse: an absent ID consumes the newest
\* pending call (LIFO) instead of the oldest
newFunctionResponseLIFO(t, fr) ==
    LET i == IF fr.ID = "" THEN Len(t.pending) ELSE IndexOf(t.pending, fr.ID)
    IN  IF i = 0
        THEN [nextID |-> t.nextID, pending |-> t.pending,
              err |-> IF fr.ID = "" THEN "missing call id" ELSE "unknown call id",
              callID |-> NoCallID]
        ELSE [nextID |-> t.nextID, pending |-> RemoveAt(t.pending, i),
              err |-> IF fr.marshalFails THEN "marshal function response" ELSE "",
              callID |-> t.pending[i]]

\* callTracker.newFunctionResponse: the tracker after the call and what it returns
newFunctionResponse(t, fr) ==
    IF fr.ID = ""
    THEN IF Len(t.pending) = 0
         THEN [nextID |-> t.nextID, pending |-> t.pending,
               err |-> "missing call id", callID |-> NoCallID]
         ELSE [nextID |-> t.nextID, pending |-> Tail(t.pending),
               err |-> IF fr.marshalFails THEN "marshal function response" ELSE "",
               callID |-> Head(t.pending)]
    ELSE LET i == IndexOf(t.pending, fr.ID)
         IN  IF i = 0
             THEN [nextID |-> t.nextID, pending |-> t.pending,
                   err |-> "unknown call id", callID |-> NoCallID]
             ELSE [nextID |-> t.nextID, pending |-> RemoveAt(t.pending, i),
                   err |-> IF fr.marshalFails THEN "marshal function response" ELSE "",
                   callID |-> fr.ID]

Tracker == [nextID |-> nextID, pending |-> pending]


InitTracker ==
    LET NoOp == [op |-> "none", Name |-> "", ID |-> "", marshalFails |-> FALSE,
                 err |-> "", callID |-> NoCallID, pendingBefore |-> << >>, nextIDBefore |-> 0,
                 originBefore |-> << >>]
    IN  /\ nextID = 0
        /\ pending = << >>
        /\ items = << >>
        /\ trackerOp = NoOp
        /\ nOps = 0
        /\ pendingOrigin = << >>

\* the origins of the pending entries after an operation that took the
\* registry from before to after: an appended entry is generated iff the call
\* carried no ID, a removed entry takes its origin with it
OriginAfter(origin, before, after, generated) ==
    IF Len(after) > Len(before) THEN Append(origin, generated)
    ELSE IF Len(after) < Len(before)
         THEN RemoveAt(origin, CHOOSE i \in 1..Len(before) : RemoveAt(before, i) = after)
         ELSE origin

\* one operation of the tracker: what it leaves in the tracker, the item
\* convertContents appends on success (part_000:128, 138)
TrackerStep(op, in, r) ==
    /\ nOps < MaxOps
    /\ nOps' = nOps + 1
    /\ nextID' = r.nextID
    /\ pending' = r.pending
    /\ items' = IF r.err = ""
                THEN Append(items, [kind |-> op, callID |-> r.callID, genID |-> in.ID = ""])
                ELSE items
    /\ trackerOp' = [op |-> op, Name |-> in.Name, ID |-> in.ID, marshalFails |-> in.marshalFails,
                     err |-> r.err, callID |-> r.callID,
                     pendingBefore |-> pending, nextIDBefore |-> nextID,
                     originBefore |-> pendingOrigin]
    /\ pendingOrigin' = OriginAfter(pendingOrigin, pending, r.pending, in.ID = "")
    /\ UNCHANGED <<translatorVars, streamVars, converterVars>>

NewFunctionCall ==
    \E fc \in FunctionCalls : TrackerStep("function_call", fc, newFunctionCall(Tracker, fc))

NewFunctionResponse ==
    \E fr \in FunctionResponses :
        TrackerStep("function_call_output", fr, newFunctionResponse(Tracker, fr))

NextTracker == NewFunctionCall \/ NewFunctionResponse

----------------------------------------------------------------------------
(* Stream translator: src/model/openai/stream.go, src/model/openai/consts.go *)

responseOutputTextDelta == "response.output_text.delta"
responseReasoningTextDelta == "response.reasoning_text.delta"
responseReasoningSummaryTextDelta == "response.reasoning_summary_text.delta"
responseFunctionCallArgumentsDelta == "response.function_call_arguments.delta"
responseFunctionCallArgumentsDone == "response.function_call_arguments.done"
responseOutputTextDone == "response.output_text.done"
responseReasoningTextDone == "response.reasoning_text.done"
responseReasoningSummaryTextDone == "response.reasoning_summary_text.done"
responseCompleted == "response.completed"
responseInProgress == "response.in_progress"
responseOutputItemAdded == "response.output_item.added"
responseOutputItemDone == "response.output_item.done"
responseFailed == "response.failed"
responseError == "error"
\* an event type the translator does not know
responseUnknown == "response.queued"

TextDeltaTypes ==
    {responseOutputTextDelta, responseReasoningTextDelta, responseReasoningSummaryTextDelta}
InformationalTypes ==
    {responseOutputTextDone, responseReasoningTextDone, responseReasoningSummaryTextDone,
     responseCompleted, responseInProgress, responseOutputItemAdded, responseOutputItemDone}

\* a nil pointer is the empty sequence, a non-nil one the one-element sequence
\* of what it points to; a nil error is the empty string
Nil == << >>
Ptr(v) == <<v>>

\* a local variable: F of the value v it is bound to
With(v, F(_)) == F(v)

\* JSON text is a sequence of the tokens "{", "}" and keys; an object is
\* "{" keys "}", and json.Unmarshal into a map yields its keys (order and
\* repetition are lost); any other text is a syntax error
JSONKeys == {"a", "b"}
IsJSONObject(p) ==
    /\ Len(p) >= 2
    /\ p[1] = "{"
    /\ p[Len(p)] = "}"
    /\ \A i \in 2..(Len(p) - 1) : p[i] \in JSONKeys
Unmarshal(p) ==
    IF IsJSONObject(p)
    THEN [err |-> "", args |-> {p[i] : i \in 2..(Len(p) - 1)}]
    ELSE [err |-> "invalid character", args |-> {}]

\* genai.Part
TextPart(text, thought) == [Text |-> text, Thought |-> thought, FunctionCall |-> Nil]
FunctionCallPart(name, id, args) ==
    [Text |-> << >>, Thought |-> FALSE,
     FunctionCall |-> Ptr([Name |-> name, ID |-> id, Args |-> args])]

\* a faulty variant of singlePartResponse: the part is put twice in the candidate
singlePartResponseTwice(part) ==
    IF part = Nil THEN Nil
    ELSE Ptr([Candidates |-> <<[Content |-> [Role |-> "model", Parts |-> <<part[1], part[1]>>],
                                FinishReason |-> "FINISH_REASON_UNSPECIFIED"]>>])

\* singlePartResponse (stream.go:146-161); part is a pointer
singlePartResponse(part) ==
    IF part = Nil THEN Nil
    ELSE Ptr([Candidates |-> <<[Content |-> [Role |-> "model", Parts |-> <<part[1]>>],
                                FinishReason |-> "FINISH_REASON_UNSPECIFIED"]>>])

\* the key under which buffer files an item id (stream.go:107-109)
bufferKey(id) == IF id = "" THEN "default" ELSE id

\* a faulty variant of buffer: the delta replaces what was buffered
bufferReplaces(fa, id, delta) ==
    (bufferKey(id) :> delta) @@ fa

\* streamTranslator.buffer followed by buf.WriteString(delta) (stream.go:67-68,
\* 106-116): the map after it
buffer(fa, id, delta) ==
    LET k == bufferKey(id)
        had == IF k \in DOMAIN fa THEN fa ELSE (k :> << >>) @@ fa
    IN  [had EXCEPT ![k] = @ \o delta]

\* delete(t.functionArgs, id)
Delete(fa, id) == [k \in (DOMAIN fa) \ {id} |-> fa[k]]

\* streamTranslator.emitFunctionCall (stream.go:122-144): the map after it,
\* the part and the error it returns
emitFunctionCall(fa, done) ==
    LET buffered == IF done.Arguments = << >> /\ done.ItemID \in DOMAIN fa
                    THEN fa[done.ItemID] ELSE done.Arguments
        payload == IF buffered = << >> THEN <<"{", "}">> ELSE buffered
        parsed == Unmarshal(payload)
    IN  [functionArgs |-> Delete(fa, done.ItemID),
         part |-> IF parsed.err = ""
                  THEN Ptr(FunctionCallPart(done.Name, done.ItemID, parsed.args))
                  ELSE Nil,
         err |-> IF parsed.err = "" THEN ""
                 ELSE "openai: parse streamed function args: " \o parsed.err]

\* a faulty variant of textDelta: an empty delta is emitted as a part too
textDeltaKeepsEmpty(delta, thought) ==
    singlePartResponse(Ptr(TextPart(delta, thought)))

\* a faulty variant of textDelta: every text delta is flagged as thought
textDeltaAllThought(delta, thought) ==
    IF delta = << >> THEN Nil ELSE singlePartResponse(Ptr(TextPart(delta, TRUE)))

\* the three text delta cases of process (stream.go:42-62)
textDelta(delta, thought) ==
    IF delta = << >> THEN Nil ELSE singlePartResponse(Ptr(TextPart(delta, thought)))

\* streamTranslator.process (stream.go:38-102): the map after it, the response
\* and the error it returns
process(fa, evt) ==
    CASE evt.Type = responseOutputTextDelta ->
            [functionArgs |-> fa, resp |-> textDelta(evt.Delta, FALSE), err |-> ""]
      [] evt.Type \in {responseReasoningTextDelta, responseReasoningSummaryTextDelta} ->
            [functionArgs |-> fa, resp |-> textDelta(evt.Delta, TRUE), err |-> ""]
      [] evt.Type = responseFunctionCallArgumentsDelta ->
            [functionArgs |-> IF evt.Delta # << >> THEN buffer(fa, evt.ItemID, evt.Delta) ELSE fa,
             resp |-> Nil, err |-> ""]
      [] evt.Type = responseFunctionCallArgumentsDone ->
            LET r == emitFunctionCall(fa, evt)
            IN  [functionArgs |-> r.functionArgs,
                 resp |-> IF r.err # "" THEN Nil ELSE singlePartResponse(r.part),
                 err |-> r.err]
      [] evt.Type = responseFailed ->
            [functionArgs |-> fa, resp |-> Nil, err |-> "openai response failed: " \o evt.Message]
      [] evt.Type = responseError ->
            [functionArgs |-> fa, resp |-> Nil,
             err |-> IF evt.Message # "" THEN "openai stream error: " \o evt.Message
                     ELSE "openai stream error"]
      [] evt.Type \in InformationalTypes ->
            [functionArgs |-> fa, resp |-> Nil, err |-> ""]
      [] OTHER ->
            [functionArgs |-> fa, resp |-> Nil, err |-> ""]

\* responses.ResponseStreamEventUnion, the fields process reads; Message is
\* evt.Message, and Response.Error.Message of a response.failed event
Event(type, delta, itemID, name, arguments, message) ==
    [Type |-> type, Delta |-> delta, ItemID |-> itemID, Name |-> name,
     Arguments |-> arguments, Message |-> message]

ItemIDs == {"", "default", "call-1"}
InlineArguments == {<< >>, <<"{", "b", "}">>, <<"b">>}

Events ==
    LET TextDeltas == {<< >>, <<"h", "i">>}
        ArgumentDeltas == {<< >>, <<"{", "a">>, <<"b", "}">>}
        TextDeltaEvents == {Event(ty, d, "", "", << >>, "") : ty \in TextDeltaTypes, d \in TextDeltas}
        ArgumentsDeltaEvents ==
            {Event(responseFunctionCallArgumentsDelta, d, id, "", << >>, "") :
                d \in ArgumentDeltas, id \in ItemIDs}
        ArgumentsDoneEvents ==
            {Event(responseFunctionCallArgumentsDone, << >>, id, "lookup", a, "") :
                a \in InlineArguments, id \in ItemIDs}
        FailureEvents ==
            {Event(responseFailed, << >>, "", "", << >>, "quota")}
                \cup {Event(responseError, << >>, "", "", << >>, m) : m \in {"", "boom"}}
        SilentEvents ==
            {Event(ty, << >>, "", "", << >>, "") : ty \in InformationalTypes \cup {responseUnknown}}
    IN  TextDeltaEvents \cup ArgumentsDeltaEvents \cup ArgumentsDoneEvents
            \cup FailureEvents \cup SilentEvents


InitTranslator ==
    LET NoProcessOp ==
            [evt |-> Event("", << >>, "", "", << >>, ""), resp |-> Nil, err |-> ""]
    IN  /\ functionArgs = << >>
        /\ processOp = NoProcessOp
        /\ received = [id \in ItemIDs |-> << >>]

\* what the stream has sent for each item since that item's last done event
ReceivedAfter(rcv, evt) ==
    IF evt.Type = responseFunctionCallArgumentsDelta
    THEN [rcv EXCEPT ![evt.ItemID] = @ \o evt.Delta]
    ELSE IF evt.Type = responseFunctionCallArgumentsDone
         THEN [rcv EXCEPT ![evt.ItemID] = << >>]
         ELSE rcv

\* a faulty variant of ProcessCall: an event of an unknown type is an error
\* and drops what is buffered
ProcessCallStrict(evt) ==
    LET known == evt.Type # responseUnknown
        r == IF known THEN process(functionArgs, evt)
             ELSE [functionArgs |-> << >>, resp |-> Nil, err |-> "openai: unknown event"]
        rcv == ReceivedAfter(received, evt)
    IN  /\ \A k \in DOMAIN r.functionArgs : Len(r.functionArgs[k]) <= MaxBuf
        /\ \A id \in ItemIDs : Len(rcv[id]) <= MaxBuf
        /\ functionArgs' = r.functionArgs
        /\ processOp' = [evt |-> evt, resp |-> r.resp, err |-> r.err]
        /\ received' = rcv

\* one call of process on the translator
ProcessCall(evt) ==
    LET r == process(functionArgs, evt)
        rcv == ReceivedAfter(received, evt)
    IN  /\ \A k \in DOMAIN r.functionArgs : Len(r.functionArgs[k]) <= MaxBuf
        /\ \A id \in ItemIDs : Len(rcv[id]) <= MaxBuf
        /\ functionArgs' = r.functionArgs
        /\ processOp' = [evt |-> evt, resp |-> r.resp, err |-> r.err]
        /\ received' = rcv

Process == \E evt \in Events : ProcessCall(evt) /\ UNCHANGED <<trackerVars, streamVars, converterVars>>

NextTranslator == Process

----------------------------------------------------------------------------
(* Streaming response aggregator: package internal/llminternal *)

\* model.LLMResponse, the fields the adapter and its tests read
LLMResponse(partial, parts) == [Partial |-> partial, Parts |-> parts]

\* llminternal.NewStreamingResponseAggregator
NewStreamingResponseAggregator == [text |-> << >>, thoughtText |-> << >>]

\* aggregator.Close: the accumulated thought and text as one final response,
\* nil when nothing is accumulated; the accumulation is cleared
AggregatorClose(a) ==
    [aggregator |-> NewStreamingResponseAggregator,
     final |-> IF a.text = << >> /\ a.thoughtText = << >> THEN Nil
               ELSE Ptr(LLMResponse(FALSE,
                        (IF a.thoughtText # << >> THEN <<TextPart(a.thoughtText, TRUE)>> ELSE << >>)
                        \o (IF a.text # << >> THEN <<TextPart(a.text, FALSE)>> ELSE << >>)))]

\* an item of an iter.Seq2[*model.LLMResponse, error]
Item(resp, err) == [resp |-> resp, err |-> err]

\* aggregator.ProcessResponse on one micro-response: a text part is
\* accumulated and passed on as a partial response; any other part first
\* flushes the accumulation as a response of its own.  The sequence is one of
\* (response, error) pairs: fails is the case of it yielding an error, which
\* the loop of generateStream provides for (doc.go:141-142)
ProcessResponse(a, resp, fails) ==
    LET part == resp.Candidates[1].Content.Parts[1]
        flush == AggregatorClose(a)
    IN  IF fails
        THEN [aggregator |-> a, outs |-> <<Item(Nil, "aggregate")>>]
        ELSE IF part.Text # << >>
             THEN [aggregator |->
                       IF part.Thought
                       THEN [a EXCEPT !.thoughtText = @ \o part.Text]
                       ELSE [a EXCEPT !.text = @ \o part.Text],
                   outs |-> <<Item(Ptr(LLMResponse(TRUE, <<part>>)), "")>>]
             ELSE [aggregator |-> flush.aggregator,
                   outs |-> (IF flush.final # Nil THEN <<Item(flush.final, "")>> ELSE << >>)
                            \o <<Item(Ptr(LLMResponse(FALSE, <<part>>)), "")>>]

----------------------------------------------------------------------------
(* openAIModel.generateStream: src/model/openai/doc.go:114-159 *)

\* the events of a stream
StreamEvents ==
    {Event(responseOutputTextDelta, <<"h", "e", "l">>, "", "", << >>, ""),
     Event(responseOutputTextDelta, <<"l", "o">>, "", "", << >>, ""),
     Event(responseReasoningTextDelta, <<"h", "m">>, "", "", << >>, ""),
     Event(responseFunctionCallArgumentsDelta, <<"{", "a">>, "call-1", "", << >>, ""),
     Event(responseFunctionCallArgumentsDelta, <<"b", "}">>, "call-1", "", << >>, ""),
     Event(responseFunctionCallArgumentsDone, << >>, "call-1", "lookup", << >>, ""),
     Event(responseFunctionCallArgumentsDone, << >>, "call-1", "lookup", <<"b">>, ""),
     Event(responseFailed, << >>, "", "", << >>, "quota"),
     Event(responseError, << >>, "", "", << >>, ""),
     Event(responseCompleted, << >>, "", "", << >>, "")}

InitStream ==
    /\ pc = "start"
    /\ aggregator = NewStreamingResponseAggregator
    /\ queue = << >>
    /\ out = << >>
    /\ fed = << >>
    /\ micro = << >>
    /\ exhausted = "no"
    /\ closed = "no"
    /\ flushCount = 0
    /\ final = Nil
    /\ stopped = "no"

\* yield(nil, err); return  (doc.go:118-119, 122-123, 134-135, 148-149, 152-153)
YieldErrorAndReturn(err, accept) ==
    /\ out' = Append(out, Item(Nil, err))
    /\ stopped' = IF accept THEN "no" ELSE "error"
    /\ pc' = "done"

\* m.client.Responses.NewStreaming and the two checks after it (doc.go:116-127)
NewStreaming ==
    /\ pc = "start"
    /\ \E outcome \in {"stream", "nil", "err"}, accept \in BOOLEAN :
        CASE outcome = "nil" -> YieldErrorAndReturn("ErrStreamingUnavailable", accept)
          [] outcome = "err" -> YieldErrorAndReturn("stream error", accept)
          [] OTHER -> pc' = "next" /\ UNCHANGED <<out, stopped>>
    /\ vendorCalls' = vendorCalls + 1
    /\ UNCHANGED <<aggregator, queue, fed, micro, exhausted, closed, flushCount, final>>
    /\ UNCHANGED <<trackerVars, translatorVars, convertVars, toolVars, buildOp, responseOp, genOp, newOp,
                   calls, streams, runnerVars>>

\* stream.Next() returns true: one event is translated (doc.go:129-141)
StreamNext ==
    /\ pc = "next"
    /\ Len(fed) < MaxEvents
    /\ \E evt \in StreamEvents, fails \in BOOLEAN, accept \in BOOLEAN :
        LET r == process(functionArgs, evt)
            agg == ProcessResponse(aggregator, r.resp[1], fails)
        IN  /\ ProcessCall(evt)
            /\ fed' = Append(fed, evt)
            /\ micro' = IF r.resp # Nil THEN Append(micro, r.resp[1]) ELSE micro
            /\ IF r.err # ""
               THEN YieldErrorAndReturn(r.err, accept) /\ UNCHANGED <<aggregator, queue>>
               ELSE IF r.resp = Nil
                    THEN UNCHANGED <<pc, out, stopped, aggregator, queue>>
                    ELSE /\ aggregator' = agg.aggregator
                         /\ queue' = agg.outs
                         /\ pc' = "yield"
                         /\ UNCHANGED <<out, stopped>>
    /\ UNCHANGED <<exhausted, closed, flushCount, final>>
    /\ UNCHANGED <<trackerVars, converterVars>>

\* a faulty variant of afterYield: the loop goes on whatever yield has returned
afterYieldGoesOn(accept, rest) ==
    IF rest = << >> THEN "next" ELSE "yield"

\* what the loop over aggregator.ProcessResponse does after yield has returned
\* accept, rest being what the sequence has still to yield (doc.go:141-145)
afterYield(accept, rest) ==
    IF ~accept THEN "done" ELSE IF rest = << >> THEN "next" ELSE "yield"

\* one round of the loop over aggregator.ProcessResponse (doc.go:141-145)
Yield ==
    /\ pc = "yield"
    /\ \E accept \in BOOLEAN :
        /\ out' = Append(out, Head(queue))
        /\ stopped' = IF accept THEN "no" ELSE "loop"
        /\ queue' = IF accept THEN Tail(queue) ELSE queue
        /\ pc' = afterYield(accept, Tail(queue))
    /\ UNCHANGED <<aggregator, fed, micro, exhausted, closed, flushCount, final>>
    /\ UNCHANGED <<trackerVars, translatorVars, converterVars>>

\* stream.Next() returns false, and the check of stream.Err() (doc.go:129, 147-150)
StreamEnd ==
    /\ pc = "next"
    /\ \E failed \in BOOLEAN, accept \in BOOLEAN :
        IF failed
        THEN exhausted' = "err" /\ YieldErrorAndReturn("stream error", accept)
        ELSE exhausted' = "ok" /\ pc' = "close" /\ UNCHANGED <<out, stopped>>
    /\ UNCHANGED <<aggregator, queue, fed, micro, closed, flushCount, final>>
    /\ UNCHANGED <<trackerVars, translatorVars, converterVars>>

\* stream.Close() (doc.go:151-154)
StreamClose ==
    /\ pc = "close"
    /\ \E failed \in BOOLEAN, accept \in BOOLEAN :
        IF failed
        THEN closed' = "err" /\ YieldErrorAndReturn("close error", accept)
        ELSE closed' = "ok" /\ pc' = "flush" /\ UNCHANGED <<out, stopped>>
    /\ UNCHANGED <<aggregator, queue, fed, micro, exhausted, flushCount, final>>
    /\ UNCHANGED <<trackerVars, translatorVars, converterVars>>

\* a faulty variant of flushItems: the final response is dropped
flushItemsDropped(last) == << >>

\* what is yielded for the result of aggregator.Close() (doc.go:155-157)
flushItems(last) == IF last # Nil THEN <<Item(last, "")>> ELSE << >>

\* aggregator.Close() and the yield of its result (doc.go:155-157)
Flush ==
    /\ pc = "flush"
    /\ \E accept \in BOOLEAN :
        LET c == AggregatorClose(aggregator)
        IN  /\ aggregator' = c.aggregator
            /\ final' = c.final
            /\ flushCount' = flushCount + 1
            /\ out' = out \o flushItems(c.final)
            /\ stopped' = IF flushItems(c.final) # << >> /\ ~accept THEN "final" ELSE "no"
            /\ pc' = "done"
    /\ UNCHANGED <<queue, fed, micro, exhausted, closed>>
    /\ UNCHANGED <<trackerVars, translatorVars, converterVars>>

NextStream == NewStreaming \/ StreamNext \/ Yield \/ StreamEnd \/ StreamClose \/ Flush

----------------------------------------------------------------------------
(* Request builder, contents: src/unnamed/part_000:84-198 *)

Whitespace == {" ", "\n"}

RECURSIVE TrimLeft(_)
TrimLeft(s) == IF s # << >> /\ Head(s) \in Whitespace THEN TrimLeft(Tail(s)) ELSE s

RECURSIVE TrimRight(_)
TrimRight(s) ==
    IF s # << >> /\ s[Len(s)] \in Whitespace THEN TrimRight(SubSeq(s, 1, Len(s) - 1)) ELSE s

\* strings.TrimSpace
TrimSpace(s) == TrimRight(TrimLeft(s))

\* genai.Part as convertContents reads it: Text, the FunctionCall and
\* FunctionResponse pointers, and Other, whether one of the fields the
\* converter never looks at (InlineData, FileData, ...) is set
ContentPart(text, fc, fr, other) ==
    [Text |-> text, FunctionCall |-> fc, FunctionResponse |-> fr, Other |-> other]

\* one item of responses.ResponseInputParam: Type is "message" (with Role and
\* Content, the list of its input_text entries), "function_call" or
\* "function_call_output" (with Name and CallID)
InputItem(type, role, content, name, callID) ==
    [Type |-> type, Role |-> role, Content |-> content, Name |-> name, CallID |-> callID]

normalizeRole(role) ==
    IF role \in {"", "user"} THEN [role |-> "user", err |-> ""]
    ELSE IF role = "model" THEN [role |-> "assistant", err |-> ""]
    ELSE IF role = "system" THEN [role |-> "system", err |-> ""]
    ELSE IF role = "developer" THEN [role |-> "developer", err |-> ""]
    ELSE [role |-> "", err |-> "unsupported role"]

\* newMessage: the message (Nil for none) and the error
newMessage(role, texts) ==
    IF Len(texts) = 0 THEN [msg |-> Nil, err |-> ""]
    ELSE LET msgRole == normalizeRole(role)
         IN  IF msgRole.err # "" THEN [msg |-> Nil, err |-> msgRole.err]
             ELSE LET contentList == SelectSeq(texts, LAMBDA txt : TrimSpace(txt) # << >>)
                  IN  IF Len(contentList) = 0 THEN [msg |-> Nil, err |-> ""]
                      ELSE [msg |-> Ptr(InputItem("message", msgRole.role, contentList, "", "")),
                            err |-> ""]

\* the locals of convertContents at its entry (part_000:85-89)
ConvertEntry ==
    [items |-> << >>, tracker |-> [nextID |-> 0, pending |-> << >>], textParts |-> << >>,
     curRole |-> "user", err |-> ""]

\* a faulty variant of flushText: the accumulated text is kept after the flush
flushTextKeeps(c) ==
    IF Len(c.textParts) = 0 THEN c
    ELSE LET m == newMessage(c.curRole, c.textParts)
         IN  IF m.err # "" THEN [c EXCEPT !.err = m.err]
             ELSE [c EXCEPT !.items = IF m.msg # Nil THEN Append(@, m.msg[1]) ELSE @]

\* the closure flushText (part_000:92-105) applied to the locals c
flushText(c) ==
    IF Len(c.textParts) = 0 THEN c
    ELSE LET m == newMessage(c.curRole, c.textParts)
         IN  IF m.err # "" THEN [c EXCEPT !.err = m.err]
             ELSE [c EXCEPT !.items = IF m.msg # Nil THEN Append(@, m.msg[1]) ELSE @,
                            !.textParts = << >>]

\* a faulty variant of rangePart: a part of no known kind is skipped
rangePartSkipsUnknown(c, part) ==
    IF part = Nil THEN c
    ELSE IF part[1].Text # << >> THEN [c EXCEPT !.textParts = Append(@, part[1].Text)]
    ELSE IF part[1].FunctionCall # Nil
    THEN LET f == flushText(c)
             r == newFunctionCall(f.tracker, part[1].FunctionCall[1])
             t == [nextID |-> r.nextID, pending |-> r.pending]
         IN  IF f.err # "" THEN f
             ELSE IF r.err # "" THEN [f EXCEPT !.tracker = t, !.err = r.err]
             ELSE [f EXCEPT !.tracker = t,
                            !.items = Append(@, InputItem("function_call", "", << >>,
                                                          part[1].FunctionCall[1].Name, r.callID))]
    ELSE IF part[1].FunctionResponse # Nil
    THEN LET f == flushText(c)
             r == newFunctionResponse(f.tracker, part[1].FunctionResponse[1])
             t == [nextID |-> r.nextID, pending |-> r.pending]
         IN  IF f.err # "" THEN f
             ELSE IF r.err # "" THEN [f EXCEPT !.tracker = t, !.err = r.err]
             ELSE [f EXCEPT !.tracker = t,
                            !.items = Append(@, InputItem("function_call_output", "", << >>,
                                                          "", r.callID))]
    ELSE c

\* the body of the loop over the parts of a content block (part_000:114-141)
\* applied to the locals c and one part, a pointer
rangePart(c, part) ==
    IF part = Nil THEN c
    ELSE IF part[1].Text # << >> THEN [c EXCEPT !.textParts = Append(@, part[1].Text)]
    ELSE IF part[1].FunctionCall # Nil
    THEN LET f == flushText(c)
             r == newFunctionCall(f.tracker, part[1].FunctionCall[1])
             t == [nextID |-> r.nextID, pending |-> r.pending]
         IN  IF f.err # "" THEN f
             ELSE IF r.err # "" THEN [f EXCEPT !.tracker = t, !.err = r.err]
             ELSE [f EXCEPT !.tracker = t,
                            !.items = Append(@, InputItem("function_call", "", << >>,
                                                          part[1].FunctionCall[1].Name, r.callID))]
    ELSE IF part[1].FunctionResponse # Nil
    THEN LET f == flushText(c)
             r == newFunctionResponse(f.tracker, part[1].FunctionResponse[1])
             t == [nextID |-> r.nextID, pending |-> r.pending]
         IN  IF f.err # "" THEN f
             ELSE IF r.err # "" THEN [f EXCEPT !.tracker = t, !.err = r.err]
             ELSE [f EXCEPT !.tracker = t,
                            !.items = Append(@, InputItem("function_call_output", "", << >>,
                                                          "", r.callID))]
    ELSE [c EXCEPT !.err = "unsupported content part"]

\* the loop over the parts of a block from part i on; it is left at the
\* first error
RECURSIVE rangeParts(_, _, _)
rangeParts(c, parts, i) ==
    IF c.err # "" \/ i > Len(parts) THEN c
    ELSE rangeParts(rangePart(c, parts[i]), parts, i + 1)

\* the body of the loop over the content blocks (part_000:109-146); a nil
\* block and a block without parts take the same branch, and are both the
\* block without parts here
rangeContent(c, content) ==
    IF Len(content.Parts) = 0 THEN c
    ELSE With(rangeParts([c EXCEPT !.curRole = content.Role], content.Parts, 1),
              LAMBDA s : IF s.err # "" THEN s ELSE flushText(s))

RECURSIVE rangeContents(_, _, _)
rangeContents(c, cs, i) ==
    IF c.err # "" \/ i > Len(cs) THEN c
    ELSE rangeContents(rangeContent(c, cs[i]), cs, i + 1)

\* convertContents: what it returns, nil items with an error
convertContents(cs) ==
    With(rangeContents(ConvertEntry, cs, 1),
         LAMBDA c : [items |-> IF c.err # "" THEN << >> ELSE c.items, err |-> c.err])

PartPointers ==
    LET Texts == {<<"h", "i">>, <<" ">>}
        ContentFunctionCalls ==
            {fc \in FunctionCalls : fc.Name = "lookup" /\ fc.ID = "" /\ ~fc.marshalFails}
        ContentFunctionResponses == {fr \in FunctionResponses : fr.ID = "" /\ ~fr.marshalFails}
        ContentParts ==
            {ContentPart(t, Nil, Nil, FALSE) : t \in Texts \cup {<< >>}}
            \cup {ContentPart(<< >>, Nil, Nil, TRUE)}
            \cup {ContentPart(<< >>, Ptr(fc), Nil, FALSE) : fc \in ContentFunctionCalls}
            \cup {ContentPart(<< >>, Nil, Ptr(fr), FALSE) : fr \in ContentFunctionResponses}
    IN  {Nil} \cup {Ptr(p) : p \in ContentParts}

SeqsUpTo(S, n) == UNION {[1..k -> S] : k \in 0..n}

RECURSIVE NumParts(_)
NumParts(cs) == IF cs = << >> THEN 0 ELSE Len(Head(cs).Parts) + NumParts(Tail(cs))

InitConvert ==
    /\ contents = << >>
    /\ conv = ConvertEntry
    /\ convPc = "loop"

\* the head of the loop over the content blocks (part_000:108-112): a block
\* without parts is passed over, another one sets curRole and is ranged over;
\* the role of a block without parts is never read, and is "" here
RangeContent ==
    /\ convPc = "loop"
    /\ Len(contents) < MaxContents
    /\ \E role \in {"", "user", "model", "system", "developer", "tool"}, empty \in BOOLEAN :
          /\ ~empty => NumParts(contents) < MaxParts
          /\ empty => role = ""
          /\ contents' = Append(contents, [Role |-> role, Parts |-> << >>])
          /\ conv' = IF empty THEN conv ELSE [conv EXCEPT !.curRole = role]
          /\ convPc' = IF empty THEN "loop" ELSE "parts"
    /\ UNCHANGED exceptConvert

\* one iteration of the loop over the parts of the block (part_000:113-142)
RangePart ==
    /\ convPc = "parts"
    /\ NumParts(contents) < MaxParts
    /\ \E part \in PartPointers :
          LET c == rangePart(conv, part)
              n == Len(contents)
          IN  /\ contents' = [contents EXCEPT ![n].Parts = Append(@, part)]
              /\ conv' = c
              /\ convPc' = IF c.err # "" THEN "done" ELSE "parts"
    /\ UNCHANGED exceptConvert

\* the end of a block: the remaining text is flushed (part_000:144-146)
EndContent ==
    /\ convPc = "parts"
    /\ Len(contents[Len(contents)].Parts) > 0
    /\ conv' = flushText(conv)
    /\ convPc' = IF conv'.err # "" THEN "done" ELSE "loop"
    /\ UNCHANGED contents
    /\ UNCHANGED exceptConvert

\* the end of the loop: return items, nil (part_000:149)
ConvertReturn ==
    /\ convPc = "loop"
    /\ convPc' = "done"
    /\ UNCHANGED <<contents, conv>>
    /\ UNCHANGED exceptConvert

NextConvert == RangeContent \/ RangePart \/ EndContent \/ ConvertReturn

----------------------------------------------------------------------------
(* Tools and tool choice: src/model/openai/tools.go *)

\* genai.Tool as ensureFunctionToolOnly reads it: BuiltIn is whether one of
\* the built-in capabilities (Retrieval, GoogleSearch, ..., CodeExecution)
\* is set
Tool(builtIn, declarations) == [BuiltIn |-> builtIn, FunctionDeclarations |-> declarations]

\* genai.FunctionDeclaration as convertFunctionDeclaration reads it; the
\* schemas are "" when absent, and their conversion does not fail here
FunctionDeclaration(name, parameters, parametersJsonSchema) ==
    [Name |-> name, Parameters |-> parameters, ParametersJsonSchema |-> parametersJsonSchema]

\* a faulty variant of ensureFunctionToolOnly: a built-in capability next to
\* function declarations is let through
ensureFunctionToolOnlyMixed(idx, tool) ==
    IF tool = Nil THEN "openai: tool " \o ToString(idx) \o " is nil"
    ELSE IF Len(tool[1].FunctionDeclarations) = 0
    THEN IF tool[1].BuiltIn
         THEN "openai: non-function tools are not supported (tool " \o ToString(idx) \o ")"
         ELSE "openai: tool " \o ToString(idx) \o " does not declare any functions"
    ELSE ""

\* ensureFunctionToolOnly: the error, "" for nil
ensureFunctionToolOnly(idx, tool) ==
    IF tool = Nil THEN "openai: tool " \o ToString(idx) \o " is nil"
    ELSE IF tool[1].BuiltIn
    THEN "openai: non-function tools are not supported (tool " \o ToString(idx) \o ")"
    ELSE IF Len(tool[1].FunctionDeclarations) = 0
    THEN "openai: tool " \o ToString(idx) \o " does not declare any functions"
    ELSE ""

\* convertFunctionDeclaration: the function tool and the error
convertFunctionDeclaration(fn) ==
    IF fn = Nil THEN [fn |-> Nil, err |-> "openai: nil function declaration"]
    ELSE IF fn[1].Name = "" THEN [fn |-> Nil, err |-> "openai: function declaration missing name"]
    ELSE LET paramsMap ==
                 IF fn[1].Parameters # "" THEN fn[1].Parameters
                 ELSE IF fn[1].ParametersJsonSchema # "" THEN fn[1].ParametersJsonSchema
                 ELSE "{type: object, properties: {}}"
         IN  [fn |-> Ptr([Name |-> fn[1].Name, Type |-> "function", Parameters |-> paramsMap,
                          Strict |-> TRUE]),
              err |-> ""]

\* the loop over the declarations of one tool from declaration j on
\* (tools.go:39-45), tools being what has been appended so far
RECURSIVE rangeDeclarations(_, _, _)
rangeDeclarations(tools, decls, j) ==
    IF j > Len(decls) THEN [tools |-> tools, err |-> ""]
    ELSE LET r == convertFunctionDeclaration(decls[j])
         IN  IF r.err # "" THEN [tools |-> << >>, err |-> r.err]
             ELSE rangeDeclarations(Append(tools, r.fn[1]), decls, j + 1)

\* the loop over cfg.Tools from tool i on (tools.go:35-46); the index of the
\* code is i - 1
RECURSIVE rangeTools(_, _, _)
rangeTools(tools, cfgTools, i) ==
    IF i > Len(cfgTools) THEN [tools |-> tools, err |-> ""]
    ELSE LET err == ensureFunctionToolOnly(i - 1, cfgTools[i])
         IN  IF err # "" THEN [tools |-> << >>, err |-> err]
             ELSE LET r == rangeDeclarations(tools, cfgTools[i][1].FunctionDeclarations, 1)
                  IN  IF r.err # "" THEN r ELSE rangeTools(r.tools, cfgTools, i + 1)

\* convertTools; the nil slice it returns is << >>
convertTools(cfg) ==
    IF cfg = Nil \/ Len(cfg[1].Tools) = 0 THEN [tools |-> << >>, err |-> ""]
    ELSE rangeTools(<< >>, cfg[1].Tools, 1)

\* a faulty variant of allowedToolParam: empty names are listed too
allowedToolParamAllNames(names, mode) ==
    IF Len(names) = 0 THEN Nil
    ELSE Ptr([Mode |-> mode, Type |-> "allowed_tools", Tools |-> names])

\* allowedToolParam: Tools holds the names of the function entries
allowedToolParam(names, mode) ==
    LET tools == SelectSeq(names, LAMBDA name : name # "")
    IN  IF Len(tools) = 0 THEN Nil
        ELSE Ptr([Mode |-> mode, Type |-> "allowed_tools", Tools |-> tools])

\* responses.ResponseNewParamsToolChoiceUnion: OfToolChoiceMode is "" when
\* omitted
ToolChoice(ofToolChoiceMode, ofAllowedTools) ==
    [OfToolChoiceMode |-> ofToolChoiceMode, OfAllowedTools |-> ofAllowedTools]

\* convertToolChoice: the choice (Nil for none) and the error
convertToolChoice(toolCfg) ==
    IF toolCfg = Nil \/ toolCfg[1].FunctionCallingConfig = Nil THEN [choice |-> Nil, err |-> ""]
    ELSE LET cfg == toolCfg[1].FunctionCallingConfig[1]
             names == cfg.AllowedFunctionNames
             ret(choice) ==
                 IF choice.OfToolChoiceMode # "" \/ choice.OfAllowedTools # Nil
                 THEN [choice |-> Ptr(choice), err |-> ""]
                 ELSE [choice |-> Nil, err |-> ""]
         IN  IF cfg.Mode \in {"", "MODE_UNSPECIFIED", "AUTO"}
             THEN IF Len(names) = 0 THEN [choice |-> Nil, err |-> ""]
                  ELSE ret(ToolChoice("", allowedToolParam(names, "auto")))
             ELSE IF cfg.Mode = "NONE" THEN ret(ToolChoice("none", Nil))
             ELSE IF cfg.Mode = "ANY"
             THEN IF Len(names) = 0 THEN ret(ToolChoice("required", Nil))
                  ELSE ret(ToolChoice("", allowedToolParam(names, "required")))
             ELSE [choice |-> Nil, err |-> "openai: unsupported tool calling mode"]

\* the tools, modes and names of the requests of the model
Tools ==
    LET Declarations ==
            {Nil, Ptr(FunctionDeclaration("", "", "")), Ptr(FunctionDeclaration("f", "", "")),
             Ptr(FunctionDeclaration("g", "schema", ""))}
    IN  {Nil, Ptr(Tool(TRUE, << >>)), Ptr(Tool(FALSE, << >>))}
        \cup {Ptr(Tool(b, <<d>>)) : b \in BOOLEAN, d \in Declarations}
        \cup {Ptr(Tool(FALSE, <<Ptr(FunctionDeclaration("f", "", "")),
                                Ptr(FunctionDeclaration("g", "", "json"))>>))}
ToolConfigs ==
    LET Modes == {"", "MODE_UNSPECIFIED", "AUTO", "NONE", "ANY", "VALIDATED"}
        AllowedNames == {"", "f", "g"}
    IN  {Nil, Ptr([FunctionCallingConfig |-> Nil])}
        \cup {Ptr([FunctionCallingConfig |->
                       Ptr([Mode |-> m, AllowedFunctionNames |-> names])]) :
                m \in Modes, names \in SeqsUpTo(AllowedNames, MaxNames)}

InitTools ==
    /\ toolsOp = [cfg |-> Nil, tools |-> << >>, err |-> "", called |-> FALSE]
    /\ choiceOp = [toolCfg |-> Nil, choice |-> Nil, err |-> "", called |-> FALSE]

\* the two converters keep no state between calls: a behaviour is one call
ConvertTools ==
    /\ ~toolsOp.called /\ ~choiceOp.called
    /\ \E cfg \in {Nil} \cup {Ptr([Tools |-> ts]) : ts \in SeqsUpTo(Tools, MaxTools)} :
          LET r == convertTools(cfg)
          IN  toolsOp' = [cfg |-> cfg, tools |-> r.tools, err |-> r.err, called |-> TRUE]
    /\ UNCHANGED choiceOp
    /\ UNCHANGED exceptTools

ConvertToolChoice ==
    /\ ~toolsOp.called /\ ~choiceOp.called
    /\ \E toolCfg \in ToolConfigs :
          LET r == convertToolChoice(toolCfg)
          IN  choiceOp' = [toolCfg |-> toolCfg, choice |-> r.choice, err |-> r.err,
                           called |-> TRUE]
    /\ UNCHANGED toolsOp
    /\ UNCHANGED exceptTools

NextTools == ConvertTools \/ ConvertToolChoice

----------------------------------------------------------------------------
(* Request builder, configuration: src/unnamed/part_000:30-82, 275-409 *)

\* genai.GenerateContentConfig as the request builder reads it: a pointer
\* field is Nil or Ptr(value), Labels and SafetySettings are Nil or Ptr of
\* the map or slice; Temperature, TopP, MaxOutputTokens and the
\* log-probability settings are passed through and cannot fail, they are
\* left out
GenerateContentConfigs(tools, toolConfigs) ==
    [TopK : {Nil, Ptr(40)},
     StopSequences : {<< >>, <<"END">>},
     CandidateCount : {1, 2},
     FrequencyPenalty : {Nil, Ptr(1)},
     PresencePenalty : {Nil, Ptr(1)},
     SystemInstruction : {Nil, Ptr([Parts |-> <<Ptr(ContentPart(<<"b", "e">>, Nil, Nil, FALSE))>>]),
                          Ptr([Parts |-> <<Ptr(ContentPart(<< >>, Nil, Nil, TRUE))>>])},
     ResponseMIMEType : {"", "text/plain", "application/json", "text/xml"},
     ResponseSchema : {Nil, Ptr([Title |-> "Person"]), Ptr([Title |-> ""])},
     ResponseJsonSchema : {Nil, Ptr([Title |-> "Json"]), Ptr([Title |-> ""])},
     Labels : {Nil, Ptr("labels")},
     SafetySettings : {Nil, Ptr("settings")},
     Tools : tools,
     ToolConfig : toolConfigs]

\* responses.ResponseNewParams as the request builder fills it; NoParams is
\* its zero value, returned with every error
Params(input, instructions, text, tools, toolChoice) ==
    [Input |-> input, Instructions |-> instructions, Text |-> text, Tools |-> tools,
     ToolChoice |-> toolChoice]
NoParams == Params(<< >>, << >>, Nil, << >>, Nil)

\* the loop of flattenContentText from part i on, b being the builder
RECURSIVE flattenParts(_, _, _)
flattenParts(b, parts, i) ==
    IF i > Len(parts) THEN [text |-> b, err |-> ""]
    ELSE IF parts[i] = Nil THEN flattenParts(b, parts, i + 1)
    ELSE IF parts[i][1].Text = << >>
    THEN [text |-> << >>, err |-> "non-text system instruction part"]
    ELSE flattenParts((IF Len(b) > 0 THEN Append(b, "\n") ELSE b) \o parts[i][1].Text,
                      parts, i + 1)

flattenContentText(content) ==
    IF content = Nil THEN [text |-> << >>, err |-> ""]
    ELSE flattenParts(<< >>, content[1].Parts, 1)

\* newJSONSchemaFormat: the format and the error; normalizeSchema and
\* schemaToMap do not fail on the schemas of the model, Schema names the
\* field the schema was taken from
newJSONSchemaFormat(cfg) ==
    IF cfg.ResponseJsonSchema = Nil /\ cfg.ResponseSchema = Nil
    THEN [format |-> Nil, err |-> "ErrJSONResponseWithoutSchema"]
    ELSE LET name == IF cfg.ResponseSchema # Nil /\ cfg.ResponseSchema[1].Title # ""
                     THEN cfg.ResponseSchema[1].Title
                     ELSE "adk_response"
         IN  [format |-> Ptr([Name |-> name,
                              Schema |-> IF cfg.ResponseJsonSchema # Nil
                                         THEN "ResponseJsonSchema" ELSE "ResponseSchema",
                              Type |-> "json_schema"]),
              err |-> ""]

\* a faulty variant of applyGenerationConfig: labels and safety settings are
\* ignored
applyGenerationConfigLenient(params, cfgPtr) ==
    IF cfgPtr = Nil THEN [params |-> params, err |-> ""]
    ELSE LET cfg == cfgPtr[1]
             inst == flattenContentText(cfg.SystemInstruction)
             p1 == IF cfg.SystemInstruction # Nil /\ inst.text # << >>
                   THEN [params EXCEPT !.Instructions = inst.text] ELSE params
             json == cfg.ResponseMIMEType = "application/json" \/ cfg.ResponseSchema # Nil
                     \/ cfg.ResponseJsonSchema # Nil
             format == newJSONSchemaFormat(cfg)
             p2 == IF json THEN [p1 EXCEPT !.Text = format.format] ELSE p1
         IN  IF cfg.TopK # Nil THEN [params |-> params, err |-> "ErrTopKNotSupported"]
             ELSE IF Len(cfg.StopSequences) > 0
             THEN [params |-> params, err |-> "ErrStopSequencesNotSupported"]
             ELSE IF cfg.CandidateCount > 1
             THEN [params |-> params, err |-> "ErrMultipleCandidatesNotSupported"]
             ELSE IF cfg.FrequencyPenalty # Nil \/ cfg.PresencePenalty # Nil
             THEN [params |-> params, err |-> "ErrPenaltiesNotSupported"]
             ELSE IF cfg.SystemInstruction # Nil /\ inst.err # ""
             THEN [params |-> params, err |-> "openai: system instruction"]
             ELSE IF cfg.ResponseMIMEType \notin {"", "text/plain", "application/json"}
             THEN [params |-> p1, err |-> "openai: response mime type is not supported"]
             ELSE IF json /\ format.err # "" THEN [params |-> p1, err |-> format.err]
             ELSE [params |-> p2, err |-> ""]

\* applyGenerationConfig: params as the call leaves them, and the error
applyGenerationConfig(params, cfgPtr) ==
    IF cfgPtr = Nil THEN [params |-> params, err |-> ""]
    ELSE LET cfg == cfgPtr[1]
             inst == flattenContentText(cfg.SystemInstruction)
             p1 == IF cfg.SystemInstruction # Nil /\ inst.text # << >>
                   THEN [params EXCEPT !.Instructions = inst.text] ELSE params
             json == cfg.ResponseMIMEType = "application/json" \/ cfg.ResponseSchema # Nil
                     \/ cfg.ResponseJsonSchema # Nil
             format == newJSONSchemaFormat(cfg)
             p2 == IF json THEN [p1 EXCEPT !.Text = format.format] ELSE p1
         IN  IF cfg.TopK # Nil THEN [params |-> params, err |-> "ErrTopKNotSupported"]
             ELSE IF Len(cfg.StopSequences) > 0
             THEN [params |-> params, err |-> "ErrStopSequencesNotSupported"]
             ELSE IF cfg.CandidateCount > 1
             THEN [params |-> params, err |-> "ErrMultipleCandidatesNotSupported"]
             ELSE IF cfg.FrequencyPenalty # Nil \/ cfg.PresencePenalty # Nil
             THEN [params |-> params, err |-> "ErrPenaltiesNotSupported"]
             ELSE IF cfg.SystemInstruction # Nil /\ inst.err # ""
             THEN [params |-> params, err |-> "openai: system instruction"]
             ELSE IF cfg.ResponseMIMEType \notin {"", "text/plain", "application/json"}
             THEN [params |-> p1, err |-> "openai: response mime type is not supported"]
             ELSE IF json /\ format.err # "" THEN [params |-> p1, err |-> format.err]
             ELSE IF cfg.Labels # Nil THEN [params |-> p2, err |-> "ErrLabelsNotSupported"]
             ELSE IF cfg.SafetySettings # Nil
             THEN [params |-> p2, err |-> "ErrSafetySettingsNotSupported"]
             ELSE [params |-> p2, err |-> ""]

\* a faulty variant of buildOpenAIParams: an empty input list is sent
buildOpenAIParamsEmptyInput(req) ==
    IF req = Nil THEN [params |-> NoParams, err |-> "ErrRequestNil"]
    ELSE LET cfg == req[1].Config
         IN
         With(convertContents(req[1].Contents), LAMBDA input :
         With(applyGenerationConfig(Params(input.items, << >>, Nil, << >>, Nil), cfg),
              LAMBDA applied :
         With(convertTools(cfg), LAMBDA tools :
         With(IF cfg # Nil /\ cfg[1].ToolConfig # Nil
              THEN convertToolChoice(cfg[1].ToolConfig)
              ELSE [choice |-> Nil, err |-> ""], LAMBDA choice :
             IF input.err # "" THEN [params |-> NoParams, err |-> input.err]
             ELSE IF applied.err # "" THEN [params |-> NoParams, err |-> applied.err]
             ELSE IF tools.err # "" THEN [params |-> NoParams, err |-> tools.err]
             ELSE IF choice.err # "" THEN [params |-> NoParams, err |-> choice.err]
             ELSE [params |-> [applied.params EXCEPT !.Tools = tools.tools,
                                                     !.ToolChoice = choice.choice],
                   err |-> ""]))))

\* buildOpenAIParams: the parameters and the error; the model name, which
\* cannot fail, is left out
buildOpenAIParams(req) ==
    IF req = Nil THEN [params |-> NoParams, err |-> "ErrRequestNil"]
    ELSE LET cfg == req[1].Config
         IN
         With(convertContents(req[1].Contents), LAMBDA input :
         With(applyGenerationConfig(Params(input.items, << >>, Nil, << >>, Nil), cfg),
              LAMBDA applied :
         With(convertTools(cfg), LAMBDA tools :
         With(IF cfg # Nil /\ cfg[1].ToolConfig # Nil
              THEN convertToolChoice(cfg[1].ToolConfig)
              ELSE [choice |-> Nil, err |-> ""], LAMBDA choice :
             IF input.err # "" THEN [params |-> NoParams, err |-> input.err]
             ELSE IF Len(input.items) = 0 THEN [params |-> NoParams, err |-> "ErrNoContents"]
             ELSE IF applied.err # "" THEN [params |-> NoParams, err |-> applied.err]
             ELSE IF tools.err # "" THEN [params |-> NoParams, err |-> tools.err]
             ELSE IF choice.err # "" THEN [params |-> NoParams, err |-> choice.err]
             ELSE [params |-> [applied.params EXCEPT !.Tools = tools.tools,
                                                     !.ToolChoice = choice.choice],
                   err |-> ""]))))

\* the requests of the model: every combination of the settings over a few
\* content lists, and a few tools and tool configurations over the empty
\* configuration
UserContent(parts) == [Role |-> "user", Parts |-> parts]
Requests ==
    LET BuildContents ==
            {<< >>,
             <<UserContent(<< >>)>>,
             <<UserContent(<<Ptr(ContentPart(<<" ">>, Nil, Nil, FALSE))>>)>>,
             <<UserContent(<<Ptr(ContentPart(<<"h", "i">>, Nil, Nil, FALSE))>>)>>,
             <<UserContent(<<Ptr(ContentPart(<<"h", "i">>, Nil, Nil, FALSE)),
                             Ptr(ContentPart(<< >>, Nil, Nil, TRUE))>>)>>,
             <<UserContent(<< >>),
               [Role |-> "model", Parts |-> <<Ptr(ContentPart(<<" ">>, Nil, Nil, FALSE)), Nil,
                                              Ptr(ContentPart(<<"\n">>, Nil, Nil, FALSE))>>]>>,
             <<[Role |-> "model",
                Parts |-> <<Ptr(ContentPart(<< >>, Ptr([Name |-> "lookup", ID |-> "",
                                                        marshalFails |-> FALSE]), Nil, FALSE))>>]>>}
        BuildTools ==
            {<<Ptr(Tool(FALSE, <<Ptr(FunctionDeclaration("f", "", ""))>>))>>, <<Ptr(Tool(TRUE, << >>))>>}
        BuildToolConfigs ==
            {Ptr([FunctionCallingConfig |-> Ptr([Mode |-> m, AllowedFunctionNames |-> <<"f">>])]) :
                m \in {"ANY", "VALIDATED"}}
        BuildConfigs ==
            {Nil}
            \cup {Ptr(c) : c \in GenerateContentConfigs({<< >>}, {Nil})}
            \cup {Ptr(c) : c \in {d \in GenerateContentConfigs(BuildTools \cup {<< >>},
                                                               BuildToolConfigs \cup {Nil}) :
                                    /\ d.TopK = Nil /\ d.StopSequences = << >> /\ d.CandidateCount = 1
                                    /\ d.FrequencyPenalty = Nil /\ d.PresencePenalty = Nil
                                    /\ d.SystemInstruction = Nil /\ d.ResponseMIMEType = ""
                                    /\ d.ResponseSchema = Nil /\ d.ResponseJsonSchema = Nil
                                    /\ d.Labels = Nil /\ d.SafetySettings = Nil}}
    IN  {Nil} \cup {Ptr([Contents |-> cs, Config |-> cfg]) : cs \in BuildContents, cfg \in BuildConfigs}

InitBuild == buildOp = [req |-> Nil, params |-> NoParams, err |-> "", called |-> FALSE]

\* one call of buildOpenAIParams; the builder keeps no state between calls,
\* a behaviour is one call
BuildOpenAIParams ==
    /\ ~buildOp.called
    /\ \E req \in Requests :
          \E r \in {buildOpenAIParams(req)} :
              buildOp' = [req |-> req, params |-> r.params, err |-> r.err, called |-> TRUE]
    /\ UNCHANGED <<trackerVars, translatorVars, streamVars, convertVars, toolVars, responseOp,
                   genOp, newOp, vendorCalls, calls, streams, runnerVars>>

NextBuild == BuildOpenAIParams

----------------------------------------------------------------------------
(* Response converter: src/unnamed/part_002 *)

\* one entry of the Content of an output item: Text for output_text and for
\* reasoning content, Refusal for refusal
OutputContent(type, text, refusal) == [Type |-> type, Text |-> text, Refusal |-> refusal]

\* responses.ResponseOutputItemUnion as convertOutputItems reads it; Summary
\* is the list of the summary texts of a reasoning item
OutputItem(type, content, summary, name, callID, arguments) ==
    [Type |-> type, Content |-> content, Summary |-> summary, Name |-> name,
     CallID |-> callID, Arguments |-> arguments]

\* convertFunctionCall: the part, a pointer, and the error
convertFunctionCall(item) ==
    LET parsed == IF item.Arguments # << >> THEN Unmarshal(item.Arguments)
                  ELSE [err |-> "", args |-> {}]
    IN  IF parsed.err # "" THEN [part |-> Nil, err |-> "openai: parse function call args"]
        ELSE [part |-> Ptr(FunctionCallPart(item.Name, item.CallID, parsed.args)), err |-> ""]

\* the loop over the content of a message item from entry j on
\* (part_002:71-82), parts being what has been appended so far
RECURSIVE rangeMessageContent(_, _, _)
rangeMessageContent(parts, content, j) ==
    IF j > Len(content) THEN [parts |-> parts, err |-> ""]
    ELSE IF content[j].Type = "output_text"
    THEN rangeMessageContent(IF content[j].Text # << >>
                             THEN Append(parts, TextPart(content[j].Text, FALSE)) ELSE parts,
                             content, j + 1)
    ELSE IF content[j].Type = "refusal"
    THEN rangeMessageContent(Append(parts, TextPart(content[j].Refusal, FALSE)), content, j + 1)
    ELSE [parts |-> << >>, err |-> "openai: unsupported message content type"]

\* a faulty variant of ThoughtParts: the parts are not flagged as thoughts
ThoughtPartsPlain(texts) ==
    LET kept == SelectSeq(texts, LAMBDA t : t # << >>)
    IN  [k \in 1..Len(kept) |-> TextPart(kept[k], FALSE)]

\* the thought parts of the non-empty texts, in order (part_002:90-100)
ThoughtParts(texts) ==
    LET kept == SelectSeq(texts, LAMBDA t : t # << >>)
    IN  [k \in 1..Len(kept) |-> TextPart(kept[k], TRUE)]

\* the loop over the output items from item i on (part_002:68-104)
RECURSIVE rangeOutputItems(_, _, _)
rangeOutputItems(parts, outputItems, i) ==
    IF i > Len(outputItems) THEN [parts |-> parts, err |-> ""]
    ELSE LET item == outputItems[i]
         IN  IF item.Type = "message"
             THEN LET r == rangeMessageContent(parts, item.Content, 1)
                  IN  IF r.err # "" THEN r ELSE rangeOutputItems(r.parts, outputItems, i + 1)
             ELSE IF item.Type = "function_call"
             THEN LET r == convertFunctionCall(item)
                  IN  IF r.err # "" THEN [parts |-> << >>, err |-> r.err]
                      ELSE rangeOutputItems(Append(parts, r.part[1]), outputItems, i + 1)
             ELSE IF item.Type = "reasoning"
             THEN rangeOutputItems(parts
                                   \o ThoughtParts([k \in 1..Len(item.Content) |->
                                                       item.Content[k].Text])
                                   \o ThoughtParts(item.Summary),
                                   outputItems, i + 1)
             ELSE [parts |-> << >>, err |-> "openai: unsupported output item type"]

\* convertOutputItems: the parts and the error
convertOutputItems(outputItems) ==
    IF Len(outputItems) = 0 THEN [parts |-> << >>, err |-> "ErrNoOutputItems"]
    ELSE LET r == rangeOutputItems(<< >>, outputItems, 1)
         IN  IF r.err # "" THEN r
             ELSE IF Len(r.parts) = 0 THEN [parts |-> << >>, err |-> "ErrNoTextOrToolContent"]
             ELSE r

\* a faulty variant of finishReason: a reason outside the table is left
\* unspecified
finishReasonStrict(resp) ==
    IF resp.IncompleteReason = "max_output_tokens" THEN "MAX_TOKENS"
    ELSE IF resp.IncompleteReason = "content_filter" THEN "SAFETY"
    ELSE IF resp.IncompleteReason = "tool_calls_exhausted" THEN "OTHER"
    ELSE IF resp.IncompleteReason # "" THEN "FINISH_REASON_UNSPECIFIED"
    ELSE "STOP"

\* finishReason of a non-nil response, from resp.IncompleteDetails.Reason
finishReason(resp) ==
    IF resp.IncompleteReason = "max_output_tokens" THEN "MAX_TOKENS"
    ELSE IF resp.IncompleteReason = "content_filter" THEN "SAFETY"
    ELSE IF resp.IncompleteReason = "tool_calls_exhausted" THEN "OTHER"
    ELSE IF resp.IncompleteReason # "" THEN "OTHER"
    ELSE "STOP"

\* a faulty variant of promptFeedback: the feedback is made whatever the reason
promptFeedbackAlways(resp) ==
    Ptr([BlockReason |-> resp.IncompleteReason, BlockReasonMessage |-> resp.IncompleteReason])

\* promptFeedback of a non-nil response
promptFeedback(resp) ==
    IF resp.IncompleteReason = "" THEN Nil
    ELSE Ptr([BlockReason |-> resp.IncompleteReason,
              BlockReasonMessage |-> resp.IncompleteReason])

\* convertResponse with buildCandidate: the response, a pointer, and the
\* error; the model version, the response ID and the usage counts are copied
\* over and are left out
convertResponse(resp) ==
    IF resp = Nil THEN [resp |-> Nil, err |-> "ErrEmptyResponse"]
    ELSE LET r == convertOutputItems(resp[1].Output)
         IN  IF r.err # "" THEN [resp |-> Nil, err |-> r.err]
             ELSE [resp |-> Ptr([Candidates |->
                                     <<[Content |-> [Role |-> "model", Parts |-> r.parts],
                                        FinishReason |-> finishReason(resp[1])]>>,
                                 PromptFeedback |-> promptFeedback(resp[1])]),
                   err |-> ""]

\* the output items, incomplete reasons and responses of the model
OutputItems ==
    LET MessageContents ==
            {<< >>,
             <<OutputContent("output_text", <<"h", "i">>, << >>)>>,
             <<OutputContent("output_text", << >>, << >>)>>,
             <<OutputContent("refusal", << >>, <<"n", "o">>)>>,
             <<OutputContent("refusal", << >>, << >>)>>,
             <<OutputContent("output_audio", << >>, << >>)>>,
             <<OutputContent("output_text", <<"h", "i">>, << >>),
               OutputContent("refusal", << >>, <<"n", "o">>)>>,
             <<OutputContent("output_text", << >>, << >>),
               OutputContent("output_text", <<"y", "o">>, << >>)>>}
        ReasoningContents ==
            {<< >>, <<OutputContent("reasoning_text", <<"h", "m">>, << >>)>>,
             <<OutputContent("reasoning_text", << >>, << >>)>>}
        ReasoningSummaries == {<< >>, <<<<"s", "u">>>>, <<<< >>, <<"s", "o">>>>}
    IN  {OutputItem("message", c, << >>, "", "", << >>) : c \in MessageContents}
        \cup {OutputItem("function_call", << >>, << >>, "lookup", "call-1", a) : a \in InlineArguments}
        \cup {OutputItem("reasoning", c, s, "", "", << >>) :
                c \in ReasoningContents, s \in ReasoningSummaries}
        \cup {OutputItem("web_search_call", << >>, << >>, "", "", << >>)}
Responses ==
    LET IncompleteReasons ==
            {"", "max_output_tokens", "content_filter", "tool_calls_exhausted", "unknown_reason"}
    IN  {Nil} \cup {Ptr([Output |-> o, IncompleteReason |-> r]) :
                      o \in SeqsUpTo(OutputItems, MaxOutput), r \in IncompleteReasons}

InitResponse == responseOp = [in |-> Nil, resp |-> Nil, err |-> "", called |-> FALSE]

\* one call of convertResponse; the converter keeps no state between calls,
\* a behaviour is one call
ConvertResponse ==
    /\ ~responseOp.called
    /\ \E resp \in Responses :
          LET r == convertResponse(resp)
          IN  responseOp' = [in |-> resp, resp |-> r.resp, err |-> r.err, called |-> TRUE]
    /\ UNCHANGED <<trackerVars, translatorVars, streamVars, convertVars, toolVars, buildOp,
                   genOp, newOp, vendorCalls, calls, streams, runnerVars>>

NextResponse == ConvertResponse

----------------------------------------------------------------------------
(* GenerateContent (src/model/openai/doc.go:82-112, 172-176) *)

\* the requests of GenerateContent: the nil request, one request that builds,
\* and requests that ask for JSON output, with and without a schema, alone
\* and together with a setting or a content list that is rejected
GenRequests ==
    LET GenContents ==
            {<< >>, <<UserContent(<<Ptr(ContentPart(<<"h", "i">>, Nil, Nil, FALSE))>>)>>}
        GenConfigs ==
            {Nil}
            \cup {Ptr(c) : c \in {d \in GenerateContentConfigs({<< >>}, {Nil}) :
                                    /\ d.StopSequences = << >> /\ d.CandidateCount = 1
                                    /\ d.FrequencyPenalty = Nil /\ d.PresencePenalty = Nil
                                    /\ d.SystemInstruction = Nil
                                    /\ d.ResponseMIMEType \in {"", "application/json"}
                                    /\ d.ResponseSchema = Nil
                                    /\ d.ResponseJsonSchema \in {Nil, Ptr([Title |-> "Json"])}
                                    /\ d.Labels = Nil /\ d.SafetySettings = Nil}}
    IN  {Nil} \cup {Ptr([Contents |-> cs, Config |-> cfg]) : cs \in GenContents, cfg \in GenConfigs}

\* what m.client.Responses.New returns without error
GenResponses ==
    {Nil,
     Ptr([Output |-> << >>, IncompleteReason |-> ""]),
     Ptr([Output |-> <<OutputItem("message",
                                  <<OutputContent("output_text", <<"h", "i">>, << >>)>>,
                                  << >>, "", "", << >>)>>,
          IncompleteReason |-> ""])}

\* a faulty variant of NewModel: the client is checked first
NewModelClientFirst(modelName, options) ==
    IF options = 0 THEN [model |-> Nil, err |-> "ErrClientRequired"]
    ELSE IF modelName = "" THEN [model |-> Nil, err |-> "ErrModelNameRequired"]
    ELSE [model |-> Ptr([name |-> modelName]), err |-> ""]

\* NewModel (doc.go:64-76) on a model name and a client with so many
\* options: the model, a pointer, and the error
NewModel(modelName, options) ==
    IF modelName = "" THEN [model |-> Nil, err |-> "ErrModelNameRequired"]
    ELSE IF options = 0 THEN [model |-> Nil, err |-> "ErrClientRequired"]
    ELSE [model |-> Ptr([name |-> modelName]), err |-> ""]

InitGenerate ==
    /\ newOp = [modelName |-> "", options |-> 0, model |-> Nil, err |-> "", called |-> FALSE]
    /\ genOp = [req |-> Nil, stream |-> FALSE, built |-> FALSE, err |-> "", called |-> FALSE]
    /\ vendorCalls = 0

\* the construction of the model; GenerateContent is a method of the model,
\* and there is none when NewModel has returned an error
CallNewModel ==
    /\ pc = "new"
    /\ \E modelName \in {"", "gpt"}, options \in {0, 1} :
          \E r \in {NewModel(modelName, options)} :
             /\ newOp' = [modelName |-> modelName, options |-> options, model |-> r.model,
                          err |-> r.err, called |-> TRUE]
             /\ pc' = IF r.err # "" THEN "done" ELSE "entry"
    /\ UNCHANGED <<aggregator, queue, out, fed, micro, exhausted, closed, flushCount, final,
                   stopped>>
    /\ UNCHANGED <<trackerVars, translatorVars, convertVars, toolVars, buildOp, responseOp,
                   genOp, vendorCalls, calls, streams, runnerVars>>

\* a faulty variant of GenerateContentCall: the vendor is called whatever
\* request building returned
GenerateContentCallAnyway(req, stream, accept) ==
    \E r \in {buildOpenAIParams(req)} :
        /\ genOp' = [req |-> req, stream |-> stream, built |-> TRUE, err |-> r.err,
                     called |-> TRUE]
        /\ pc' = IF stream THEN "start" ELSE "generate"
        /\ UNCHANGED <<out, stopped>>

\* GenerateContent on req and stream, and the first step of the sequence it
\* returns: singleErrorSequence yields the error once and ignores what the
\* consumer answers; generateStream and generate start with the vendor call
GenerateContentCall(req, stream, accept) ==
    IF req = Nil
    THEN /\ genOp' = [req |-> req, stream |-> stream, built |-> FALSE, err |-> "ErrRequestNil",
                      called |-> TRUE]
         /\ YieldErrorAndReturn("ErrRequestNil", accept)
    ELSE \E r \in {buildOpenAIParams(req)} :
            /\ genOp' = [req |-> req, stream |-> stream, built |-> TRUE, err |-> r.err,
                         called |-> TRUE]
            /\ IF r.err # ""
               THEN YieldErrorAndReturn(r.err, accept)
               ELSE /\ pc' = IF stream THEN "start" ELSE "generate"
                    /\ UNCHANGED <<out, stopped>>

GenerateContent ==
    /\ pc = "entry"
    /\ \E req \in GenRequests, stream \in BOOLEAN, accept \in BOOLEAN :
          GenerateContentCall(req, stream, accept)
    /\ UNCHANGED <<aggregator, queue, fed, micro, exhausted, closed, flushCount, final>>
    /\ UNCHANGED <<trackerVars, translatorVars, convertVars, toolVars, buildOp, responseOp,
                   newOp, vendorCalls, calls, streams, runnerVars>>

\* a faulty variant of Generate: the return after the error of the conversion
\* is missing, and the response, nil, is yielded after the error
GenerateWithoutReturn ==
    /\ pc = "generate"
    /\ vendorCalls' = vendorCalls + 1
    /\ \E failed \in BOOLEAN, resp \in GenResponses, accept \in BOOLEAN :
          \E r \in {convertResponse(resp)} :
             /\ responseOp' = IF failed THEN responseOp
                              ELSE [in |-> resp, resp |-> r.resp, err |-> r.err, called |-> TRUE]
             /\ IF failed THEN YieldErrorAndReturn("openai: call failed", accept)
                ELSE /\ out' = (IF r.err # "" THEN Append(out, Item(Nil, r.err)) ELSE out)
                               \o <<Item(r.resp, "")>>
                     /\ stopped' = IF accept THEN "no" ELSE "final"
                     /\ pc' = "done"
    /\ UNCHANGED <<aggregator, queue, fed, micro, exhausted, closed, flushCount, final>>
    /\ UNCHANGED <<trackerVars, translatorVars, convertVars, toolVars, buildOp, genOp, newOp,
                   calls, streams, runnerVars>>

\* generate: the vendor call, the conversion of its response and the one
\* yield (doc.go:96-112); responseOp records the call of convertResponse, which
\* is not made when the vendor call fails; the LLMResponse that
\* converters.Genai2LLMResponse makes of the converted response is written as
\* the converted response
Generate ==
    /\ pc = "generate"
    /\ vendorCalls' = vendorCalls + 1
    /\ \E failed \in BOOLEAN, resp \in GenResponses, accept \in BOOLEAN :
          \E r \in {convertResponse(resp)} :
             /\ responseOp' = IF failed THEN responseOp
                              ELSE [in |-> resp, resp |-> r.resp, err |-> r.err, called |-> TRUE]
             /\ IF failed THEN YieldErrorAndReturn("openai: call failed", accept)
                ELSE IF r.err # "" THEN YieldErrorAndReturn(r.err, accept)
                ELSE /\ out' = Append(out, Item(r.resp, ""))
                     /\ stopped' = IF accept THEN "no" ELSE "final"
                     /\ pc' = "done"
    /\ UNCHANGED <<aggregator, queue, fed, micro, exhausted, closed, flushCount, final>>
    /\ UNCHANGED <<trackerVars, translatorVars, convertVars, toolVars, buildOp, genOp, newOp,
                   calls, streams, runnerVars>>

NextGenerate == CallNewModel \/ GenerateContent \/ Generate \/ NextStream

----------------------------------------------------------------------------
(* Two requests and two streams at once: src/unnamed/part_000:84-89,       *)
(* src/model/openai/doc.go:126-127, src/model/openai/stream.go:28-36       *)

\* the calls and streams that are under way together
Instances == {1, 2}

\* the parts and the events of the instances: a function call and a function
\* response without ID, a text; two argument deltas and a done event without
\* inline arguments for one item
InstanceParts ==
    {Ptr(ContentPart(<< >>, Ptr([Name |-> "lookup", ID |-> "", marshalFails |-> FALSE]),
                     Nil, FALSE)),
     Ptr(ContentPart(<< >>, Nil, Ptr([Name |-> "lookup", ID |-> "", marshalFails |-> FALSE]),
                     FALSE)),
     Ptr(ContentPart(<<"h", "i">>, Nil, Nil, FALSE))}
InstanceEvents ==
    {Event(responseFunctionCallArgumentsDelta, <<"{", "a">>, "call-1", "", << >>, ""),
     Event(responseFunctionCallArgumentsDelta, <<"b", "}">>, "call-1", "", << >>, ""),
     Event(responseFunctionCallArgumentsDone, << >>, "call-1", "lookup", << >>, "")}

\* newStreamTranslator (stream.go:32-36): an empty argument buffer
newStreamTranslator == << >>

InitInstances ==
    /\ calls = [i \in Instances |-> [parts |-> << >>, conv |-> ConvertEntry]]
    /\ streams = [i \in Instances |->
                     [functionArgs |-> newStreamTranslator, fed |-> << >>, emitted |-> << >>]]

\* the number of parts ranged over and events fed so far
NumSteps ==
    Len(calls[1].parts) + Len(calls[2].parts) + Len(streams[1].fed) + Len(streams[2].fed)

\* a faulty variant of localsOf: the tracker is one variable of the package,
\* the one the first call made
localsShared(cs, i) == [cs[i].conv EXCEPT !.tracker = cs[1].conv.tracker]

\* the locals of call i: items, tracker, textParts and curRole are declared
\* in convertContents (part_000:85-89, 107) and belong to the call
localsOf(cs, i) == cs[i].conv

\* the translator of stream i: generateStream makes its own (doc.go:127)
translatorOf(ss, i) == ss[i].functionArgs

\* one iteration of the loop over the parts in call i
RangePartOf(i) ==
    /\ NumSteps < MaxSteps
    /\ calls[i].conv.err = ""
    /\ \E part \in InstanceParts :
          calls' = [calls EXCEPT ![i] = [parts |-> Append(@.parts, part),
                                         conv |-> rangePart(localsOf(calls, i), part)]]
    /\ UNCHANGED streams
    /\ UNCHANGED <<trackerVars, translatorVars, streamVars, convertVars, toolVars, buildOp,
                   responseOp, genOp, newOp, vendorCalls, runnerVars>>

\* one event of stream i is translated
ProcessOf(i) ==
    /\ NumSteps < MaxSteps
    /\ \E evt \in InstanceEvents :
          \E r \in {process(translatorOf(streams, i), evt)} :
             streams' = [streams EXCEPT ![i] =
                            [functionArgs |-> r.functionArgs,
                             fed |-> Append(@.fed, evt),
                             emitted |-> Append(@.emitted, [resp |-> r.resp, err |-> r.err])]]
    /\ UNCHANGED calls
    /\ UNCHANGED <<trackerVars, translatorVars, streamVars, convertVars, toolVars, buildOp,
                   responseOp, genOp, newOp, vendorCalls, runnerVars>>

NextInstances == (\E i \in Instances : RangePartOf(i)) \/ (\E i \in Instances : ProcessOf(i))

\* the state before the model is constructed
----------------------------------------------------------------------------
(* Agent tree: src/unnamed/part_004:40-61, src/agent/llmagent/llmagent.go:29-55,
   src/runner/runner.go:174-188 *)

\* the loop of New over cfg.SubAgents from sub-agent i on (part_004:50-58):
\* the agents after it and its error; a is the agent New has allocated
RECURSIVE rangeSubAgents(_, _, _, _)
rangeSubAgents(ags, a, subs, i) ==
    IF i > Len(subs) THEN [agents |-> ags, err |-> ""]
    ELSE IF ags[subs[i]].parent # Nil
    THEN [agents |-> ags, err |-> "subAgent already has a parent"]
    ELSE rangeSubAgents([ags EXCEPT ![subs[i]].parent = Ptr(a)], a, subs, i + 1)

\* agent.New (part_004:40-61), called directly or by llmagent.New
\* (llmagent.go:29-55), which is what cfg.llm says: the agents after it, the
\* agent it returns (Nil with an error) and the error. An agent is the
\* index of its object in ags; returned is whether New has handed it out
New(ags, cfg) ==
    With(Len(ags) + 1,
         LAMBDA a :
            With(rangeSubAgents(Append(ags, [parent |-> Nil, subAgents |-> cfg.SubAgents,
                                             llm |-> cfg.llm,
                                             DisallowTransferToParent |->
                                                 cfg.DisallowTransferToParent,
                                             returned |-> FALSE]),
                                a, cfg.SubAgents, 1),
                 LAMBDA r :
                    IF r.err # "" THEN [agents |-> r.agents, a |-> Nil, err |-> r.err]
                    ELSE [agents |-> [r.agents EXCEPT ![a].returned = TRUE],
                          a |-> Ptr(a), err |-> ""]))

\* isTransferableAcrossAgentTree (runner.go:174-188) from the round of its
\* loop in which curAgent is this pointer; the function is this with
\* curAgent = agentToRun
RECURSIVE isTransferableAcrossAgentTree(_, _, _)
isTransferableAcrossAgentTree(ags, agentToRun, curAgent) ==
    IF curAgent = Nil THEN TRUE
    ELSE IF ~ags[agentToRun[1]].llm THEN FALSE
    ELSE IF ags[agentToRun[1]].DisallowTransferToParent THEN FALSE
    ELSE isTransferableAcrossAgentTree(ags, agentToRun, ags[curAgent[1]].parent)

InitRunner ==
    /\ agents = << >>
    /\ agentOp = [op |-> "none", cfg |-> << >>, a |-> Nil, err |-> "", result |-> FALSE]
    /\ runPc = "start"
    /\ runLog = << >>
    /\ arrived = << >>

\* one call of New, with sub-agents among the agents handed out so far
NewAgent ==
    /\ Len(agents) < MaxAgents
    /\ \E subs \in SeqsUpTo({i \in 1..Len(agents) : agents[i].returned}, MaxSubAgents),
          llm \in BOOLEAN, disallow \in BOOLEAN :
          \E r \in {New(agents, [SubAgents |-> subs, llm |-> llm,
                                 DisallowTransferToParent |-> disallow])} :
             /\ agents' = r.agents
             /\ agentOp' = [op |-> "New",
                            cfg |-> [SubAgents |-> subs, llm |-> llm,
                                     DisallowTransferToParent |-> disallow],
                            a |-> r.a, err |-> r.err, result |-> FALSE]
    /\ UNCHANGED <<runPc, runLog, arrived>>
    /\ UNCHANGED <<trackerVars, translatorVars, streamVars, convertVars, toolVars, buildOp,
                   responseOp, genOp, newOp, vendorCalls, calls, streams>>

\* one call of isTransferableAcrossAgentTree on an agent that was handed out
IsTransferable ==
    /\ \E a \in {i \in 1..Len(agents) : agents[i].returned} :
          agentOp' = [op |-> "isTransferableAcrossAgentTree", cfg |-> << >>, a |-> Ptr(a),
                      err |-> "",
                      result |-> isTransferableAcrossAgentTree(agents, Ptr(a), Ptr(a))]
    /\ UNCHANGED <<agents, runPc, runLog, arrived>>
    /\ UNCHANGED <<trackerVars, translatorVars, streamVars, convertVars, toolVars, buildOp,
                   responseOp, genOp, newOp, vendorCalls, calls, streams>>

NextAgents == NewAgent \/ IsTransferable

----------------------------------------------------------------------------
(* Runner.Run: src/runner/runner.go:47-108 *)

\* one entry of the history of Run: a call of SessionService.AppendEvent with
\* the error it returned, or a call of yield with its two arguments
LogEntry(op, event, err) == [op |-> op, event |-> event, err |-> err]

\* a faulty variant of rangeAgentEvent: the event is yielded before it is
\* appended to the session
rangeAgentEventYieldFirst(log, event, err, appendFails, accept) ==
    IF err # ""
    THEN [log |-> Append(log, LogEntry("yield", event, err)), returned |-> ~accept]
    ELSE IF ~accept
    THEN [log |-> Append(log, LogEntry("yield", event, "")), returned |-> TRUE]
    ELSE IF event[1].LLMResponse # Nil /\ event[1].LLMResponse[1].Partial
    THEN [log |-> Append(log, LogEntry("yield", event, "")), returned |-> FALSE]
    ELSE IF appendFails
    THEN [log |-> log \o <<LogEntry("yield", event, ""),
                           LogEntry("AppendEvent", event, "append error"),
                           LogEntry("yield", Nil, "failed to add event to session")>>,
          returned |-> TRUE]
    ELSE [log |-> log \o <<LogEntry("yield", event, ""), LogEntry("AppendEvent", event, "")>>,
          returned |-> FALSE]

\* the body of the loop over agentToRun.Run (runner.go:85-107) for one item
\* (event, err) of the agent: the history after it and whether Run has
\* returned; appendFails is whether AppendEvent, if called, returns an error,
\* accept what yield(event, ...) returns
rangeAgentEvent(log, event, err, appendFails, accept) ==
    IF err # ""
    THEN [log |-> Append(log, LogEntry("yield", event, err)), returned |-> ~accept]
    ELSE IF event[1].LLMResponse # Nil /\ event[1].LLMResponse[1].Partial
    THEN [log |-> Append(log, LogEntry("yield", event, "")), returned |-> ~accept]
    ELSE IF appendFails
    THEN [log |-> log \o <<LogEntry("AppendEvent", event, "append error"),
                           LogEntry("yield", Nil, "failed to add event to session")>>,
          returned |-> TRUE]
    ELSE [log |-> log \o <<LogEntry("AppendEvent", event, ""), LogEntry("yield", event, "")>>,
          returned |-> ~accept]

\* Run up to the loop (runner.go:52-83): the session is fetched, the agent to
\* run found, CFC set up and the user's message appended; each failure is
\* yielded and ends the run. The message is the event with ID 0
RunSetup ==
    /\ runPc = "start"
    /\ \E failure \in {"", "get session", "failed to setup CFC",
                       "failed to append event to sessionService"} :
          /\ runLog' = IF failure = ""
                       THEN <<LogEntry("AppendEvent", Ptr([ID |-> 0, LLMResponse |-> Nil]), "")>>
                       ELSE IF failure = "failed to append event to sessionService"
                       THEN <<LogEntry("AppendEvent", Ptr([ID |-> 0, LLMResponse |-> Nil]),
                                       "append error"),
                              LogEntry("yield", Nil, failure)>>
                       ELSE <<LogEntry("yield", Nil, failure)>>
          /\ runPc' = IF failure = "" THEN "agent" ELSE "done"
    /\ UNCHANGED <<agents, agentOp, arrived>>
    /\ UNCHANGED <<trackerVars, translatorVars, streamVars, convertVars, toolVars, buildOp,
                   responseOp, genOp, newOp, vendorCalls, calls, streams>>

\* one round of the loop over agentToRun.Run (runner.go:85-107): the agent
\* yields an event without error, or an error with or without an event; the
\* event's ID is its place in what the agent has yielded
AgentEvent ==
    /\ runPc = "agent"
    /\ Len(arrived) < MaxEvents
    /\ \E err \in {"", "agent error"}, hasEvent \in BOOLEAN, appendFails \in BOOLEAN,
          accept \in BOOLEAN,
          response \in {Nil, Ptr([Partial |-> FALSE]), Ptr([Partial |-> TRUE])} :
          /\ err = "" => hasEvent
          /\ ~hasEvent => response = Nil
          /\ \E event \in {IF hasEvent
                           THEN Ptr([ID |-> Len(arrived) + 1, LLMResponse |-> response])
                           ELSE Nil} :
                \E r \in {rangeAgentEvent(runLog, event, err, appendFails, accept)} :
                   /\ arrived' = Append(arrived, [event |-> event, err |-> err])
                   /\ runLog' = r.log
                   /\ runPc' = IF r.returned THEN "done" ELSE "agent"
    /\ UNCHANGED <<agents, agentOp>>
    /\ UNCHANGED <<trackerVars, translatorVars, streamVars, convertVars, toolVars, buildOp,
                   responseOp, genOp, newOp, vendorCalls, calls, streams>>

\* the sequence of the agent ends, and Run with it (runner.go:85, 107-108)
AgentEnd ==
    /\ runPc = "agent"
    /\ runPc' = "done"
    /\ UNCHANGED <<agents, agentOp, runLog, arrived>>
    /\ UNCHANGED <<trackerVars, translatorVars, streamVars, convertVars, toolVars, buildOp,
                   responseOp, genOp, newOp, vendorCalls, calls, streams>>

NextRunner == RunSetup \/ AgentEvent \/ AgentEnd

InitEntry ==
    /\ pc = "new"
    /\ aggregator = NewStreamingResponseAggregator
    /\ queue = << >> /\ out = << >> /\ fed = << >> /\ micro = << >>
    /\ exhausted = "no" /\ closed = "no" /\ flushCount = 0 /\ final = Nil /\ stopped = "no"
    /\ InitTracker /\ InitTranslator
    /\ InitConvert /\ InitTools /\ InitBuild /\ InitResponse /\ InitGenerate
    /\ InitInstances /\ InitRunner

Init ==
    /\ InitTracker /\ InitTranslator /\ InitStream
    /\ InitConvert /\ InitTools /\ InitBuild /\ InitResponse /\ InitGenerate
    /\ InitInstances /\ InitRunner

SpecTracker == Init /\ [][NextTracker]_vars

SpecTranslator == Init /\ [][NextTranslator]_vars

SpecStream == Init /\ [][NextStream]_vars

SpecConvert == Init /\ [][NextConvert]_vars

SpecTools == Init /\ [][NextTools]_vars

SpecBuild == Init /\ [][NextBuild]_vars

SpecResponse == Init /\ [][NextResponse]_vars

SpecGenerate == InitEntry /\ [][NextGenerate]_vars

SpecInstances == Init /\ [][NextInstances]_vars

SpecAgents == Init /\ [][NextAgents]_vars

SpecRunner == Init /\ [][NextRunner]_vars

----------------------------------------------------------------------------
(* Claims about the call tracker, checked under SpecTracker *)

Range(s) == {s[i] : i \in 1..Len(s)}

\* the last operation was a function response / a function call
LastIsResponse == trackerOp.op = "function_call_output"
LastIsCall == trackerOp.op = "function_call"

\* C1: a function response with no ID that arrives while at least one call is
\* pending is given the ID of the oldest pending entry, whatever its origin,
\* removes exactly that entry and leaves the others in their order; the item
\* emitted for it carries that ID.
C1_AbsentIDConsumesOldest ==
    (LastIsResponse /\ trackerOp.ID = "" /\ trackerOp.pendingBefore # << >>) =>
        /\ trackerOp.callID = Head(trackerOp.pendingBefore)
        /\ pending = Tail(trackerOp.pendingBefore)
        /\ nextID = trackerOp.nextIDBefore
        /\ (trackerOp.err = "" =>
                items[Len(items)] = [kind |-> "function_call_output",
                                     callID |-> Head(trackerOp.pendingBefore),
                                     genID |-> TRUE])

\* C1 witness: an ID-less response consumed the oldest of two pending calls of
\* different origin, and the younger one stayed
C1_Witness ==
    /\ LastIsResponse /\ trackerOp.ID = "" /\ trackerOp.err = ""
    /\ Len(trackerOp.pendingBefore) = 2
    /\ trackerOp.originBefore = <<FALSE, TRUE>>
    /\ pending = <<trackerOp.pendingBefore[2]>>

\* C2: a function response with an explicit ID that is not pending fails, and
\* the pending registry and the ID counter are what they were before the call.
C2_UnknownIDLeavesTrackerUntouched ==
    (LastIsResponse /\ trackerOp.ID # "" /\ trackerOp.ID \notin Range(trackerOp.pendingBefore)) =>
        /\ trackerOp.err # ""
        /\ pending = trackerOp.pendingBefore
        /\ nextID = trackerOp.nextIDBefore

\* C2 witness: an unknown explicit ID met a registry holding two other calls
C2_Witness ==
    /\ LastIsResponse /\ trackerOp.ID = "a"
    /\ Len(trackerOp.pendingBefore) = 2
    /\ "a" \notin Range(trackerOp.pendingBefore)
    /\ trackerOp.err = "unknown call id"

\* C3 (as claimed): each call ID appears at most once in the pending registry.
C3_PendingIDsUnique ==
    \A i, j \in 1..Len(pending) : pending[i] = pending[j] => i = j

\* the generated entries of a registry, oldest first
GeneratedOf(p, origin) == SelectSeq([i \in 1..Len(p) |-> <<p[i], origin[i]>>], LAMBDA e : e[2])

\* C4 (as claimed): a call with no ID gets a non-empty generated ID, and a
\* response with no ID is matched to the oldest still-pending generated ID.
C4_AbsentIDMatchesOldestGenerated ==
    /\ (LastIsCall /\ trackerOp.ID = "" /\ trackerOp.Name # "") =>
            (trackerOp.callID # "" /\ trackerOp.callID = GenID(trackerOp.nextIDBefore))
    /\ (LastIsResponse /\ trackerOp.ID = ""
            /\ GeneratedOf(trackerOp.pendingBefore, trackerOp.originBefore) # << >>) =>
            trackerOp.callID = GeneratedOf(trackerOp.pendingBefore, trackerOp.originBefore)[1][1]

\* C4 (amended): a call with no ID gets a non-empty generated ID, which is
\* registered as the newest pending entry; a response with no ID is matched to
\* the oldest pending entry, generated or explicit, so it is matched to the
\* oldest pending generated ID exactly when no call with an explicit ID has
\* been pending for longer.
C4_AbsentIDMatchesOldestPending ==
    /\ (LastIsCall /\ trackerOp.ID = "" /\ trackerOp.Name # "") =>
            /\ trackerOp.callID # ""
            /\ trackerOp.callID = GenID(trackerOp.nextIDBefore)
            /\ nextID = trackerOp.nextIDBefore + 1
            /\ pending = Append(trackerOp.pendingBefore, trackerOp.callID)
    /\ (LastIsResponse /\ trackerOp.ID = "" /\ trackerOp.pendingBefore # << >>) =>
            /\ trackerOp.callID = Head(trackerOp.pendingBefore)
            /\ (trackerOp.originBefore[1] =>
                    trackerOp.callID =
                        GeneratedOf(trackerOp.pendingBefore, trackerOp.originBefore)[1][1])

\* C4 witness: a call and a response that both lack IDs, with nothing else
\* pending, carry the same generated call ID in the output items
C4_Witness ==
    /\ Len(items) >= 2
    /\ items[Len(items) - 1].kind = "function_call" /\ items[Len(items) - 1].genID
    /\ items[Len(items)].kind = "function_call_output" /\ items[Len(items)].genID
    /\ items[Len(items)].callID = items[Len(items) - 1].callID
    /\ items[Len(items)].callID = GenID(1)
    /\ LastIsResponse /\ trackerOp.pendingBefore = <<GenID(1)>>

----------------------------------------------------------------------------
(* Claims about the stream translator, checked under SpecTranslator *)

\* the parts of a non-nil response's first candidate
PartsOf(resp) == resp[1].Candidates[1].Content.Parts

\* C5 (as claimed): for every item identifier, an arguments-done event with
\* empty inline arguments that follows argument deltas for that identifier
\* emits a function-call part whose arguments are the parse of the
\* concatenation, in arrival order, of the deltas received for that identifier
\* since its last done event (an error when that text does not parse).
C5_DoneEmitsConcatenation ==
    [][LET e == processOp'.evt
           sent == received[e.ItemID]
       IN  (e.Type = responseFunctionCallArgumentsDone /\ e.Arguments = << >> /\ sent # << >>) =>
               IF Unmarshal(sent).err = ""
               THEN /\ processOp'.err = ""
                    /\ processOp'.resp # Nil
                    /\ PartsOf(processOp'.resp) =
                           <<FunctionCallPart(e.Name, e.ItemID, Unmarshal(sent).args)>>
               ELSE processOp'.err # "" /\ processOp'.resp = Nil]_vars

\* C10: process returns nothing, or an error with no response, or a response
\* with exactly one candidate holding exactly one part and no error.
C10_AtMostOneMicroResponse ==
    /\ processOp.err # "" => processOp.resp = Nil
    /\ processOp.resp # Nil =>
            /\ Len(processOp.resp) = 1
            /\ Len(processOp.resp[1].Candidates) = 1
            /\ Len(PartsOf(processOp.resp)) = 1

\* C10 witness: a done event emitted the function call buffered from two deltas
C10_Witness ==
    /\ processOp.evt.Type = responseFunctionCallArgumentsDone
    /\ processOp.evt.Arguments = << >>
    /\ processOp.err = ""
    /\ processOp.resp # Nil
    /\ PartsOf(processOp.resp) = <<FunctionCallPart("lookup", "call-1", {"a", "b"})>>

----------------------------------------------------------------------------
(* Claims about the streaming generate path, checked under SpecStream *)

\* C6 (as claimed): once an item with a non-nil error has been yielded, no
\* further item is yielded and no further stream event is read.
C6_ErrorIsTerminal ==
    [][(\E i \in 1..Len(out) : out[i].err # "") => (out' = out /\ fed' = fed)]_vars

\* C7 (as claimed): when the consumer's yield has returned false in the
\* translation loop, the loop reads no further event and the underlying stream
\* is closed.
C7_StopClosesStream ==
    stopped = "loop" => (pc = "done" /\ closed # "no")

\* the last item yielded is the non-nil result of the flush
FinalIsLast == final # Nil => (out # << >> /\ out[Len(out)] = Item(final, ""))

\* C8 (as claimed): when the event source is exhausted without error the flush
\* is invoked exactly once, only after the stream has been closed, and its
\* non-nil result is the last item yielded; it is never invoked before
\* exhaustion.
C8_FlushOnceOnExhaustion ==
    /\ flushCount <= 1
    /\ flushCount = 1 => (exhausted = "ok" /\ closed # "no" /\ pc = "done" /\ queue = << >>)
    /\ (pc = "done" /\ exhausted = "ok") => (flushCount = 1 /\ FinalIsLast)

\* C8 (amended): when the event source is exhausted without error and closing
\* the stream succeeds, the flush is invoked exactly once, after every event
\* has been processed and the stream has been closed, and its non-nil result
\* is the last item yielded; when closing the stream fails the flush is not
\* invoked and the close error is the last item; the flush is never invoked
\* before exhaustion.
C8_FlushOnceAfterClose ==
    /\ flushCount <= 1
    /\ flushCount = 1 => (exhausted = "ok" /\ closed = "ok" /\ pc = "done" /\ queue = << >>)
    /\ (pc = "done" /\ exhausted = "ok" /\ closed = "ok") => (flushCount = 1 /\ FinalIsLast)
    /\ (pc = "done" /\ closed = "err") =>
            (flushCount = 0 /\ out[Len(out)] = Item(Nil, "close error"))

\* C8 witness: a stream of two events ended, was closed and flushed its text
C8_Witness ==
    /\ pc = "done" /\ exhausted = "ok" /\ closed = "ok" /\ flushCount = 1
    /\ Len(fed) = 2
    /\ final # Nil
    /\ out[Len(out)] = Item(final, "")

RECURSIVE Concat(_)
\* the concatenation of a sequence of texts
Concat(texts) == IF texts = << >> THEN << >> ELSE Head(texts) \o Concat(Tail(texts))

\* every event read is an output-text delta with a non-empty delta
OnlyTextDeltas ==
    /\ fed # << >>
    /\ \A i \in 1..Len(fed) : fed[i].Type = responseOutputTextDelta /\ fed[i].Delta # << >>

\* C9: a stream of output-text delta events with non-empty deltas d1..dn and
\* no other events produces one text micro-response per event, in arrival
\* order, and after aggregation (no aggregation error) the final text is d1..dn.
C9_TextDeltasAggregate ==
    OnlyTextDeltas =>
        /\ Len(micro) = Len(fed)
        /\ \A i \in 1..Len(fed) :
                /\ Len(micro[i].Candidates) = 1
                /\ micro[i].Candidates[1].Content.Parts = <<TextPart(fed[i].Delta, FALSE)>>
        /\ (flushCount = 1 /\ \A i \in 1..Len(out) : out[i].err = "") =>
                /\ final = Ptr(LLMResponse(FALSE,
                               <<TextPart(Concat([i \in 1..Len(fed) |-> fed[i].Delta]), FALSE)>>))
                /\ out[Len(out)] = Item(final, "")

\* C9 witness: "hel" then "lo" gives "hello"
C9_Witness ==
    /\ OnlyTextDeltas
    /\ Len(fed) = 2 /\ fed[1].Delta = <<"h", "e", "l">> /\ fed[2].Delta = <<"l", "o">>
    /\ flushCount = 1
    /\ final = Ptr(LLMResponse(FALSE, <<TextPart(<<"h", "e", "l", "l", "o">>, FALSE)>>))
    /\ out[Len(out)] = Item(final, "")

----------------------------------------------------------------------------
(* Claims about the conversion of the contents, checked under SpecConvert *)

\* convertContents has returned its items with a nil error
Converted == convPc = "done" /\ conv.err = ""

IsBlank(text) == \A i \in 1..Len(text) : text[i] \in Whitespace
IsTextPart(p) == p.Text # << >>
IsCallPart(p) == p.Text = << >> /\ p.FunctionCall # Nil
IsResponsePart(p) == p.Text = << >> /\ p.FunctionCall = Nil /\ p.FunctionResponse # Nil
IsUnsupportedPart(p) == ~IsTextPart(p) /\ ~IsCallPart(p) /\ ~IsResponsePart(p) /\ p.Other

\* the parts of a block, the nil pointers left out
PartsIn(content) ==
    LET present == SelectSeq(content.Parts, LAMBDA ptr : ptr # Nil)
    IN  [i \in 1..Len(present) |-> present[i][1]]

\* the role of the messages of a block of a supported role
MessageRole ==
    ("" :> "user") @@ ("user" :> "user") @@ ("model" :> "assistant")
    @@ ("system" :> "system") @@ ("developer" :> "developer")

\* the last part of the maximal run of text parts of ps that starts at part i
RECURSIVE RunEnd(_, _)
RunEnd(ps, i) == IF i < Len(ps) /\ IsTextPart(ps[i + 1]) THEN RunEnd(ps, i + 1) ELSE i

\* what the parts of ps from part i on are expected to become, the call IDs
\* left out: a run of text parts one message holding its non-blank texts, a
\* call or a response one item
RECURSIVE ExpectedFrom(_, _, _)
ExpectedFrom(role, ps, i) ==
    IF i > Len(ps) THEN << >>
    ELSE IF IsTextPart(ps[i])
    THEN LET j == RunEnd(ps, i)
             texts == [k \in 1..(j - i + 1) |-> ps[i + k - 1].Text]
             kept == SelectSeq(texts, LAMBDA t : ~IsBlank(t))
         IN  (IF kept = << >> THEN << >>
              ELSE <<[Type |-> "message", Role |-> MessageRole[role], Content |-> kept]>>)
             \o ExpectedFrom(role, ps, j + 1)
    ELSE <<[Type |-> IF IsCallPart(ps[i]) THEN "function_call" ELSE "function_call_output",
            Role |-> "", Content |-> << >>]>>
         \o ExpectedFrom(role, ps, i + 1)

RECURSIVE ExpectedItems(_)
ExpectedItems(cs) ==
    IF cs = << >> THEN << >>
    ELSE ExpectedFrom(Head(cs).Role, PartsIn(Head(cs)), 1) \o ExpectedItems(Tail(cs))

\* C11: convertContents preserves order and grouping: the items come in the
\* order of the source parts; each maximal run of text parts of one block
\* becomes one message of that block's role with one entry per non-blank text,
\* in order; a call or a response comes after the message of the text before
\* it; text of different blocks is never merged into one message.
C11_OrderAndGrouping ==
    Converted =>
        [i \in 1..Len(conv.items) |->
            [Type |-> conv.items[i].Type, Role |-> conv.items[i].Role,
             Content |-> conv.items[i].Content]]
        = ExpectedItems(contents)

\* C11 witness: a block of a text and a call followed by a block of a text
\* has become a message, a call and a second message
C11_Witness ==
    /\ Converted
    /\ Len(contents) = 2
    /\ Len(conv.items) = 3
    /\ conv.items[1].Type = "message"
    /\ conv.items[2].Type = "function_call"
    /\ conv.items[3].Type = "message"
    /\ conv.items[1].Role # conv.items[3].Role

\* the parts the loop has ranged over, over all blocks
RangedParts == UNION {Range(PartsIn(contents[i])) : i \in 1..Len(contents)}

\* C12: request building fails closed: once a part that is neither text, a
\* function call nor a function response (inline data, ...) has been ranged
\* over, convertContents has returned an error, and buildOpenAIParams returns
\* that error and no parameters for these contents, whatever parts came
\* before; the part is never dropped.
C12_UnsupportedPartFails ==
    (\E p \in RangedParts : IsUnsupportedPart(p)) =>
        /\ convPc = "done"
        /\ conv.err # ""
        /\ convertContents(contents) = [items |-> << >>, err |-> conv.err]
        /\ buildOpenAIParams(Ptr([Contents |-> contents, Config |-> Nil]))
           = [params |-> NoParams, err |-> conv.err]

\* C12 witness: an inline-data part in the second block, after a block that
\* has given a message, has made the conversion fail
C12_Witness ==
    /\ convPc = "done"
    /\ conv.err = "unsupported content part"
    /\ Len(contents) = 2
    /\ Len(conv.items) = 1
    /\ \E p \in Range(PartsIn(contents[2])) : IsUnsupportedPart(p)

\* a text part whose text may be empty: nothing but Text is set
IsTextFragment(p) == p.FunctionCall = Nil /\ p.FunctionResponse = Nil /\ ~p.Other

\* the non-blank texts of a block of text fragments, in order
NonBlankTexts(content) ==
    LET ps == PartsIn(content)
    IN  SelectSeq([i \in 1..Len(ps) |-> ps[i].Text], LAMBDA t : ~IsBlank(t))

\* the blocks of cs that hold a non-blank text, in order
RECURSIVE WithText(_)
WithText(cs) ==
    IF cs = << >> THEN << >>
    ELSE (IF NonBlankTexts(Head(cs)) # << >> THEN <<Head(cs)>> ELSE << >>) \o WithText(Tail(cs))

\* C13: over blocks of supported roles that hold text fragments only, empty
\* or whitespace-only ones included, the conversion gives no error; a block
\* whose fragments are all blank gives no message, and another one gives one
\* message with exactly one entry per non-blank fragment, in order.
C13_BlankFragmentsOmitted ==
    (/\ \A i \in 1..Len(contents) : contents[i].Role \in DOMAIN MessageRole
     /\ \A p \in RangedParts : IsTextFragment(p)) =>
        /\ conv.err = ""
        /\ convPc = "done" =>
              /\ Len(conv.items) = Len(WithText(contents))
              /\ \A i \in 1..Len(conv.items) :
                    conv.items[i].Content = NonBlankTexts(WithText(contents)[i])

\* C14: role mapping: the messages of a block of role user are of role user,
\* model gives assistant, system gives system, developer gives developer, an
\* absent role gives user; and once convertContents has returned for
\* contents with a block that has parts and any other role, it has returned
\* an error, whatever kinds of parts the block holds.
C14_RoleMapping ==
    convPc = "done" =>
        /\ conv.err = "" =>
              \A i \in 1..Len(conv.items) :
                  conv.items[i].Role = ExpectedItems(contents)[i].Role
        /\ (\E i \in 1..Len(contents) :
                PartsIn(contents[i]) # << >> /\ contents[i].Role \notin DOMAIN MessageRole)
           => conv.err # ""

----------------------------------------------------------------------------
(* Claims about buildOpenAIParams, checked under SpecBuild *)

\* contents that resolve to no input item: no block, blocks without parts,
\* or blocks of supported roles that hold whitespace-only text parts only
ResolveToNothing(cs) ==
    \A i \in 1..Len(cs) :
        /\ cs[i].Role \in DOMAIN MessageRole
        /\ \A p \in Range(PartsIn(cs[i])) : IsTextPart(p) /\ IsBlank(p.Text)

UnsupportedSet(cfg) ==
    {s \in {"TopK", "StopSequences", "CandidateCount", "Penalties", "Labels", "SafetySettings"} :
        \/ s = "TopK" /\ cfg.TopK # Nil
        \/ s = "StopSequences" /\ cfg.StopSequences # << >>
        \/ s = "CandidateCount" /\ cfg.CandidateCount > 1
        \/ s = "Penalties" /\ (cfg.FrequencyPenalty # Nil \/ cfg.PresencePenalty # Nil)
        \/ s = "Labels" /\ cfg.Labels # Nil
        \/ s = "SafetySettings" /\ cfg.SafetySettings # Nil}

\* the error of each unsupported setting (src/model/openai/errors.go:32-43)
NamedError ==
    [TopK |-> "ErrTopKNotSupported", StopSequences |-> "ErrStopSequencesNotSupported",
     CandidateCount |-> "ErrMultipleCandidatesNotSupported",
     Penalties |-> "ErrPenaltiesNotSupported", Labels |-> "ErrLabelsNotSupported",
     SafetySettings |-> "ErrSafetySettingsNotSupported"]

\* cfg with its unsupported settings taken away
Supported(cfg) ==
    [cfg EXCEPT !.TopK = Nil, !.StopSequences = << >>, !.CandidateCount = 1,
                !.FrequencyPenalty = Nil, !.PresencePenalty = Nil, !.Labels = Nil,
                !.SafetySettings = Nil]

----------------------------------------------------------------------------
(* Claims about the tools and the tool choice, checked under SpecTools *)

\* the names of the declarations of the tools ts, in declaration order
RECURSIVE DeclaredNames(_)
DeclaredNames(ts) ==
    IF ts = << >> THEN << >>
    ELSE LET decls == Head(ts)[1].FunctionDeclarations
         IN  [j \in 1..Len(decls) |-> decls[j][1].Name] \o DeclaredNames(Tail(ts))

\* a tool that carries a built-in capability or declares no function
IsOffending(tool) == tool # Nil /\ (tool[1].BuiltIn \/ Len(tool[1].FunctionDeclarations) = 0)

\* the errors that name the tool of index idx
IndexErrors(idx) ==
    {"openai: non-function tools are not supported (tool " \o ToString(idx) \o ")",
     "openai: tool " \o ToString(idx) \o " does not declare any functions"}

\* a tool that is nil, or that holds a declaration that is nil or has no name
IsMalformed(tool) ==
    \/ tool = Nil
    \/ \E j \in 1..Len(tool[1].FunctionDeclarations) :
          \/ tool[1].FunctionDeclarations[j] = Nil
          \/ tool[1].FunctionDeclarations[j][1].Name = ""

\* no tool and no declaration of the tools ts is a nil pointer
NoNilPointer(ts) ==
    \A i \in 1..Len(ts) :
        /\ ts[i] # Nil
        /\ \A j \in 1..Len(ts[i][1].FunctionDeclarations) : ts[i][1].FunctionDeclarations[j] # Nil

AllowedTools(mode, names) ==
    Ptr(ToolChoice("", Ptr([Mode |-> mode, Type |-> "allowed_tools", Tools |-> names])))

\* C19: convertToolChoice computes this table: unspecified or auto with no
\* allowed names gives no choice; auto with allowed names gives
\* allowed-tools(auto) over exactly the non-empty names, in order; none gives
\* tool calling disabled; any with no allowed names gives required; any
\* with allowed names gives allowed-tools(required); any other mode is an
\* error; allowed names that are all empty give no choice at all.
C19_ToolChoiceTable ==
    (choiceOp.called /\ choiceOp.toolCfg # Nil
     /\ choiceOp.toolCfg[1].FunctionCallingConfig # Nil) =>
        LET mode == choiceOp.toolCfg[1].FunctionCallingConfig[1].Mode
            names == choiceOp.toolCfg[1].FunctionCallingConfig[1].AllowedFunctionNames
            named == SelectSeq(names, LAMBDA n : n # "")
            auto == mode \in {"", "MODE_UNSPECIFIED", "AUTO"}
        IN  /\ (auto /\ names = << >>) => choiceOp.err = "" /\ choiceOp.choice = Nil
            /\ (auto /\ named # << >>) =>
                  choiceOp.err = "" /\ choiceOp.choice = AllowedTools("auto", named)
            /\ mode = "NONE" =>
                  choiceOp.err = "" /\ choiceOp.choice = Ptr(ToolChoice("none", Nil))
            /\ (mode = "ANY" /\ names = << >>) =>
                  choiceOp.err = "" /\ choiceOp.choice = Ptr(ToolChoice("required", Nil))
            /\ (mode = "ANY" /\ named # << >>) =>
                  choiceOp.err = "" /\ choiceOp.choice = AllowedTools("required", named)
            /\ (~auto /\ mode \notin {"NONE", "ANY"}) =>
                  choiceOp.err # "" /\ choiceOp.choice = Nil
            /\ ((auto \/ mode = "ANY") /\ names # << >> /\ named = << >>) =>
                  choiceOp.err = "" /\ choiceOp.choice = Nil

\* C19 witness: mode any with the allowed names g, empty, f gives
\* allowed-tools(required) over g, f
C19_Witness ==
    /\ choiceOp.called /\ choiceOp.toolCfg # Nil
    /\ choiceOp.toolCfg[1].FunctionCallingConfig # Nil
    /\ choiceOp.toolCfg[1].FunctionCallingConfig[1].Mode = "ANY"
    /\ choiceOp.toolCfg[1].FunctionCallingConfig[1].AllowedFunctionNames = <<"g", "", "f">>
    /\ choiceOp.choice = AllowedTools("required", <<"g", "f">>)

----------------------------------------------------------------------------
(* Claims about the response converter, checked under SpecResponse *)

\* an output item that carries text, refusal, function-call or reasoning
\* content; a refusal entry counts whatever its text
CarriesContent(item) ==
    \/ item.Type = "function_call"
    \/ /\ item.Type = "message"
       /\ \E j \in 1..Len(item.Content) :
             \/ item.Content[j].Type = "output_text" /\ item.Content[j].Text # << >>
             \/ item.Content[j].Type = "refusal"
    \/ /\ item.Type = "reasoning"
       /\ \/ \E j \in 1..Len(item.Content) : item.Content[j].Text # << >>
          \/ \E j \in 1..Len(item.Summary) : item.Summary[j] # << >>

\* C20: convertResponse rejects a nil response, a response with zero output
\* items, and a response none of whose output items carries text, refusal,
\* function-call or reasoning content; whenever it succeeds there is a single
\* candidate of at least one part, and every text part has non-empty text.
C20_RejectsEmptyResponses ==
    responseOp.called =>
        /\ responseOp.in = Nil => responseOp.err = "ErrEmptyResponse" /\ responseOp.resp = Nil
        /\ responseOp.in # Nil =>
              LET output == responseOp.in[1].Output
              IN  /\ output = << >> =>
                        responseOp.err = "ErrNoOutputItems" /\ responseOp.resp = Nil
                  /\ (\A i \in 1..Len(output) : ~CarriesContent(output[i])) =>
                        responseOp.err # "" /\ responseOp.resp = Nil
        /\ responseOp.err = "" =>
              /\ responseOp.resp # Nil
              /\ Len(responseOp.resp[1].Candidates) = 1
              /\ LET parts == responseOp.resp[1].Candidates[1].Content.Parts
                 IN  /\ Len(parts) >= 1
                     /\ \A k \in 1..Len(parts) :
                           parts[k].FunctionCall = Nil => parts[k].Text # << >>

----------------------------------------------------------------------------
(* Claims about GenerateContent, checked under SpecGenerate *)

\* the request asks for JSON output and gives no schema of either form
JSONWithoutSchema(req) ==
    /\ req # Nil /\ req[1].Config # Nil
    /\ req[1].Config[1].ResponseMIMEType = "application/json"
    /\ req[1].Config[1].ResponseSchema = Nil
    /\ req[1].Config[1].ResponseJsonSchema = Nil

\* the request with a JSON schema added to its configuration
WithJSONSchema(req) ==
    Ptr([req[1] EXCEPT !.Config = Ptr([req[1].Config[1] EXCEPT
                                          !.ResponseJsonSchema = Ptr([Title |-> "Json"])])])

\* request building has failed: the error is the only item of the output
\* sequence and the vendor has not been called
OnlyItemIs(err) == out = <<Item(Nil, err)>> /\ vendorCalls = 0

\* no vendor call happens when request building fails, whether streaming or
\* not, and the error of request building is the only item
NoVendorCallOnBuildError ==
    genOp.called /\ genOp.err # "" => OnlyItemIs(genOp.err) /\ pc = "done"

\* C16 as stated: request building comes before any vendor call, so no vendor
\* call happens when it fails; and every request that asks for JSON output
\* without a schema of either form yields ErrJSONResponseWithoutSchema as the
\* only item of the output sequence, the vendor API never being called
C16_JSONWithoutSchemaYieldsItsError ==
    /\ NoVendorCallOnBuildError
    /\ genOp.called /\ JSONWithoutSchema(genOp.req) => OnlyItemIs("ErrJSONResponseWithoutSchema")

\* C16, amended: request building comes before any vendor call, so no vendor
\* call happens when it fails and its error is the only item of the output
\* sequence; a request that asks for JSON output without a schema of either
\* form always fails so, and its error is ErrJSONResponseWithoutSchema
\* whenever the same request with a schema would be built, that is, unless a
\* check made earlier in request building (the contents, or an unsupported
\* setting such as top-k) rejects it first
C16_BuildBeforeVendorCall ==
    /\ NoVendorCallOnBuildError
    /\ genOp.called /\ JSONWithoutSchema(genOp.req) =>
          /\ genOp.err # ""
          /\ OnlyItemIs(genOp.err)
          /\ buildOpenAIParams(WithJSONSchema(genOp.req)).err = "" =>
                OnlyItemIs("ErrJSONResponseWithoutSchema")

\* both a streaming and a non-streaming call of a JSON request without schema
\* that is valid otherwise; the witness is the streaming one
C16_Witness ==
    /\ genOp.called /\ genOp.stream
    /\ JSONWithoutSchema(genOp.req)
    /\ buildOpenAIParams(WithJSONSchema(genOp.req)).err = ""
    /\ out = <<Item(Nil, "ErrJSONResponseWithoutSchema")>>
    /\ vendorCalls = 0
    /\ pc = "done"

\* the parts one output item stands for: of a message, a plain text part per
\* output_text entry that has text and per refusal entry; of a function call,
\* one function-call part with its name, call ID and parsed arguments; of a
\* reasoning item, a thought part per content entry that has text, then one
\* per summary entry that has text
PartsOfEntry(entry) ==
    IF entry.Type = "refusal" THEN <<TextPart(entry.Refusal, FALSE)>>
    ELSE IF entry.Text = << >> THEN << >>
    ELSE <<TextPart(entry.Text, FALSE)>>
ThoughtOfText(text) == IF text = << >> THEN << >> ELSE <<TextPart(text, TRUE)>>
PartsOfItem(item) ==
    IF item.Type = "message"
    THEN Concat([k \in 1..Len(item.Content) |-> PartsOfEntry(item.Content[k])])
    ELSE IF item.Type = "function_call"
    THEN <<FunctionCallPart(item.Name, item.CallID,
                            IF item.Arguments = << >> THEN {}
                            ELSE Unmarshal(item.Arguments).args)>>
    ELSE Concat([k \in 1..Len(item.Content) |-> ThoughtOfText(item.Content[k].Text)])
         \o Concat([k \in 1..Len(item.Summary) |-> ThoughtOfText(item.Summary[k])])

\* an item of a type outside message, function_call and reasoning, or a
\* message with an entry of a type outside output_text and refusal
IsUnsupportedItem(item) ==
    \/ item.Type \notin {"message", "function_call", "reasoning"}
    \/ /\ item.Type = "message"
       /\ \E j \in 1..Len(item.Content) : item.Content[j].Type \notin {"output_text", "refusal"}

\* C21: a successful conversion gives the parts of the output items as one
\* flat sequence, in item order and, within an item, in entry order (the
\* content entries of a reasoning item before its summary entries): plain text
\* parts for output_text and refusal entries, function-call parts for
\* function_call items, thought parts for reasoning entries; an item of any
\* other type, or a message entry of any other type, makes the conversion fail
\* and nothing is returned
C21_FlatOrderedParts ==
    responseOp.called /\ responseOp.in # Nil =>
        LET output == responseOp.in[1].Output
        IN  /\ responseOp.err = "" =>
                 responseOp.resp[1].Candidates[1].Content.Parts
                     = Concat([i \in 1..Len(output) |-> PartsOfItem(output[i])])
            /\ (\E i \in 1..Len(output) : IsUnsupportedItem(output[i])) =>
                 responseOp.err # "" /\ responseOp.resp = Nil

\* a reasoning item with a content entry and a summary entry, after a message
\* with a text and a refusal, has been converted
C21_Witness ==
    /\ responseOp.called /\ responseOp.err = ""
    /\ responseOp.resp[1].Candidates[1].Content.Parts
         = <<TextPart(<<"h", "i">>, FALSE), TextPart(<<"n", "o">>, FALSE),
             TextPart(<<"h", "m">>, TRUE), TextPart(<<"s", "u">>, TRUE)>>

\* the finish reason the table gives for a vendor incomplete reason
TableFinishReason(reason) ==
    CASE reason = "max_output_tokens" -> "MAX_TOKENS"
      [] reason = "content_filter" -> "SAFETY"
      [] reason = "tool_calls_exhausted" -> "OTHER"
      [] reason = "" -> "STOP"
      [] OTHER -> "OTHER"

\* the errors a conversion can end with; none of them comes from the
\* incomplete reason
OutputErrors ==
    {"ErrNoOutputItems", "ErrNoTextOrToolContent", "openai: parse function call args",
     "openai: unsupported message content type", "openai: unsupported output item type"}

\* C22: the finish reason of a converted response is the table's value for
\* the vendor incomplete reason (max_output_tokens: token limit,
\* content_filter: safety, tool_calls_exhausted: other, empty: stop, any other
\* value: other); no incomplete reason makes the conversion fail, and the
\* finish reason of a non-nil response is never unspecified
C22_FinishReasonTotal ==
    responseOp.called /\ responseOp.in # Nil =>
        /\ responseOp.err = "" =>
              /\ responseOp.resp[1].Candidates[1].FinishReason
                    = TableFinishReason(responseOp.in[1].IncompleteReason)
              /\ responseOp.resp[1].Candidates[1].FinishReason
                    \in {"MAX_TOKENS", "SAFETY", "OTHER", "STOP"}
        /\ responseOp.err # "" => responseOp.err \in OutputErrors

\* a response with an incomplete reason outside the table has been converted
C22_Witness ==
    /\ responseOp.called /\ responseOp.err = ""
    /\ responseOp.in[1].IncompleteReason = "unknown_reason"
    /\ responseOp.resp[1].Candidates[1].FinishReason = "OTHER"

\* C23: a converted response has prompt feedback if and only if the vendor
\* incomplete reason is non-empty; the block-reason code and the message of
\* the feedback are both that reason; and the finish reason is stop exactly
\* when there is no prompt feedback
C23_PromptFeedback ==
    responseOp.called /\ responseOp.err = "" =>
        LET reason == responseOp.in[1].IncompleteReason
            feedback == responseOp.resp[1].PromptFeedback
        IN  /\ feedback # Nil <=> reason # ""
            /\ feedback # Nil =>
                  feedback[1].BlockReason = reason /\ feedback[1].BlockReasonMessage = reason
            /\ responseOp.resp[1].Candidates[1].FinishReason = "STOP" <=> feedback = Nil

\* a response cut by the content filter has been converted
C23_Witness ==
    /\ responseOp.called /\ responseOp.err = ""
    /\ responseOp.resp[1].PromptFeedback
         = Ptr([BlockReason |-> "content_filter", BlockReasonMessage |-> "content_filter"])
    /\ responseOp.resp[1].Candidates[1].FinishReason = "SAFETY"

----------------------------------------------------------------------------
(* Claims about the structured-output format, checked under SpecBuild *)

\* the schema the format is made of: the JSON-schema form when it is given,
\* the native form otherwise (part_000:372-377)
UsedSchema(cfg) ==
    IF cfg.ResponseJsonSchema # Nil THEN cfg.ResponseJsonSchema ELSE cfg.ResponseSchema

\* C24: the name of a generated structured-output format is the declared
\* title of the schema the format is made of, whichever form supplied it,
\* when that title is present, and "adk_response" otherwise
C24_FormatNamedAfterUsedSchema ==
    buildOp.called /\ buildOp.err = "" /\ buildOp.params.Text # Nil =>
        LET used == UsedSchema(buildOp.req[1].Config[1])
        IN  buildOp.params.Text[1].Name
               = IF used[1].Title # "" THEN used[1].Title ELSE "adk_response"


----------------------------------------------------------------------------
(* Claims about NewModel and the non-streaming path, checked under SpecGenerate *)

\* C25: NewModel returns ErrModelNameRequired for an empty model name,
\* whatever the client, ErrClientRequired for a named model with a client
\* without options, and a model otherwise; GenerateContent on a nil request
\* yields exactly one item, ErrRequestNil, without building parameters and
\* without a vendor call
C25_PreconditionErrors ==
    /\ newOp.called =>
          /\ newOp.modelName = "" => newOp.err = "ErrModelNameRequired" /\ newOp.model = Nil
          /\ newOp.modelName # "" /\ newOp.options = 0 =>
                newOp.err = "ErrClientRequired" /\ newOp.model = Nil
          /\ newOp.modelName # "" /\ newOp.options > 0 => newOp.err = "" /\ newOp.model # Nil
    /\ genOp.called => newOp.called /\ newOp.err = ""
    /\ genOp.called /\ genOp.req = Nil =>
          /\ out = <<Item(Nil, "ErrRequestNil")>>
          /\ ~genOp.built
          /\ vendorCalls = 0
          /\ pc = "done"

\* NewModel has refused an empty model name given with a client without
\* options
C25_Witness ==
    /\ newOp.called /\ newOp.modelName = "" /\ newOp.options = 0
    /\ newOp.err = "ErrModelNameRequired"
    /\ pc = "done" /\ ~genOp.called


\* a call of GenerateContent without streaming whose parameters were built
NonStreaming == genOp.called /\ ~genOp.stream /\ genOp.err = ""

\* C26: the non-streaming path yields exactly one item per call: nothing
\* before the vendor call has returned, and then either the error of the
\* vendor call with a nil response, or, the call having succeeded, the error
\* of the conversion with a nil response, or the converted response with a
\* nil error; nothing is yielded after it
C26_GenerateYieldsOneItem ==
    NonStreaming =>
        /\ pc \in {"generate", "done"}
        /\ pc = "generate" => out = << >> /\ vendorCalls = 0
        /\ pc = "done" =>
              /\ vendorCalls = 1
              /\ Len(out) = 1
              /\ out[1] = IF ~responseOp.called THEN Item(Nil, "openai: call failed")
                          ELSE IF responseOp.err # "" THEN Item(Nil, responseOp.err)
                          ELSE Item(responseOp.resp, "")
              /\ out[1].resp = Nil <=> out[1].err # ""

\* the vendor has answered with a response that has no output items, and
\* the error of its conversion is the one item of the call
C26_Witness ==
    /\ NonStreaming /\ pc = "done"
    /\ responseOp.called /\ responseOp.in # Nil
    /\ out = <<Item(Nil, "ErrNoOutputItems")>>

----------------------------------------------------------------------------
(* Claims about calls and streams under way together, checked under SpecInstances *)

\* what process returns, one result per event, when the events are fed to a
\* translator of their own that starts with the buffer fa
RECURSIVE Replay(_, _)
Replay(fa, evts) ==
    IF evts = << >> THEN << >>
    ELSE LET r == process(fa, Head(evts))
         IN  <<[resp |-> r.resp, err |-> r.err]>> \o Replay(r.functionArgs, Tail(evts))

\* the call IDs of the function-call items of a call, in order
CallItemIDs(its) ==
    LET callItems == SelectSeq(its, LAMBDA it : it.Type = "function_call")
    IN  [k \in 1..Len(callItems) |-> callItems[k].CallID]

\* C27: whatever the other call has ranged over and the other stream has been
\* fed, and in whatever interleaving, a call of convertContents stands where
\* converting its parts alone, from fresh locals, would stand, with the same
\* items and the same generated call IDs, numbered from 0; and a translator
\* has returned for its events what a translator fed these events alone
\* would have returned
C27_NoCrossRequestState ==
    \A i \in Instances :
        /\ calls[i].conv = rangeParts(ConvertEntry, calls[i].parts, 1)
        /\ \A k \in 1..Len(CallItemIDs(calls[i].conv.items)) :
              CallItemIDs(calls[i].conv.items)[k] = GenID(k - 1)
        /\ streams[i].emitted = Replay(newStreamTranslator, streams[i].fed)

\* both calls have converted a function call without ID, and the second
\* stream has received the done event of an item whose deltas went to the
\* first stream
C27_Witness ==
    /\ Len(calls[1].parts) = 1 /\ Len(calls[2].parts) = 1
    /\ CallItemIDs(calls[1].conv.items) = <<GenID(0)>>
    /\ CallItemIDs(calls[2].conv.items) = <<GenID(0)>>
    /\ Len(streams[1].fed) = 1 /\ streams[1].functionArgs # newStreamTranslator
    /\ Len(streams[2].fed) = 1
    /\ streams[2].emitted[1].resp
         = singlePartResponse(Ptr(FunctionCallPart("lookup", "call-1", {})))

-----------------------------------------------------------------------------
(* Claims about the argument buffer of the stream translator, checked under
   SpecTranslator *)

\* C28 (as claimed): once an arguments-done event has been processed for an
\* item identifier, the translator holds no buffered argument text for that
\* item (the entry that buffer gives for the identifier), whether the event
\* emitted a function call or failed to parse; and when no item has received
\* argument deltas since its last done event, the argument buffer is empty.
C28_DoneLeavesNoBufferedText ==
    /\ processOp.evt.Type = responseFunctionCallArgumentsDone =>
           bufferKey(processOp.evt.ItemID) \notin DOMAIN functionArgs
    /\ (\A id \in ItemIDs : received[id] = << >>) => DOMAIN functionArgs = {}

\* C29 (as claimed): an arguments-done event parses its inline arguments when
\* they are non-empty, otherwise the text buffered for its item, otherwise the
\* empty object; the text buffered for the item is discarded in each case; a
\* payload that is not a JSON object yields an error and no part; on success
\* the one part emitted is a function call with the event's name and item
\* identifier and the parsed arguments.
C29_DonePayloadAndPart ==
    [][LET e == processOp'.evt
           k == bufferKey(e.ItemID)
           buffered == IF k \in DOMAIN functionArgs THEN functionArgs[k] ELSE << >>
           payload == IF e.Arguments # << >> THEN e.Arguments
                      ELSE IF buffered # << >> THEN buffered ELSE <<"{", "}">>
       IN  e.Type = responseFunctionCallArgumentsDone =>
               /\ k \notin DOMAIN functionArgs'
               /\ IF Unmarshal(payload).err = ""
                  THEN /\ processOp'.err = ""
                       /\ processOp'.resp # Nil
                       /\ PartsOf(processOp'.resp) =
                              <<FunctionCallPart(e.Name, e.ItemID, Unmarshal(payload).args)>>
                  ELSE processOp'.err # "" /\ processOp'.resp = Nil]_vars

-----------------------------------------------------------------------------
(* Claims about the events that do not touch the argument buffer, checked
   under SpecTranslator *)

\* C31: an output-text, reasoning-text or reasoning-summary-text delta event
\* with a non-empty delta emits one text part whose text is the delta, flagged
\* as thought for the two reasoning kinds and not for output text; with an
\* empty delta it emits nothing; the argument buffers are unchanged and no
\* error is returned in both cases.
C31_TextDeltaEmitsItsText ==
    [][LET e == processOp'.evt
       IN  e.Type \in TextDeltaTypes =>
               /\ processOp'.err = ""
               /\ functionArgs' = functionArgs
               /\ IF e.Delta = << >>
                  THEN processOp'.resp = Nil
                  ELSE /\ processOp'.resp # Nil
                       /\ PartsOf(processOp'.resp) =
                              <<TextPart(e.Delta, e.Type # responseOutputTextDelta)>>]_vars

\* a reasoning text delta has been emitted as a thought part while argument
\* text was buffered
C31_Witness ==
    /\ processOp.evt.Type = responseReasoningTextDelta
    /\ processOp.evt.Delta = <<"h", "i">>
    /\ processOp.resp = singlePartResponse(Ptr(TextPart(<<"h", "i">>, TRUE)))
    /\ functionArgs = ("call-1" :> <<"{", "a">>)

\* C32: an informational event and an event of any kind the translator does
\* not recognize return no response and no error and leave the argument
\* buffers unchanged; so whatever event follows is answered as it would have
\* been without it.
C32_SilentEventsChangeNothing ==
    [][LET e == processOp'.evt
       IN  e.Type \notin TextDeltaTypes \cup {responseFunctionCallArgumentsDelta,
                                              responseFunctionCallArgumentsDone,
                                              responseFailed, responseError} =>
               /\ processOp'.resp = Nil /\ processOp'.err = ""
               /\ functionArgs' = functionArgs
               /\ \A next \in Events :
                      process(functionArgs', next) = process(functionArgs, next)]_vars

\* an event of an unknown kind has been processed while argument text was
\* buffered
C32_Witness ==
    /\ processOp.evt.Type = responseUnknown
    /\ processOp.resp = Nil /\ processOp.err = ""
    /\ functionArgs = ("default" :> <<"{", "a">>)

-----------------------------------------------------------------------------
(* Claims about the calls the tracker rejects, checked under SpecTracker *)

\* C35: a function response with no ID that arrives when no call is pending
\* fails with an error, emits no item and leaves the call tracker (the counter
\* and the pending registry) unchanged.
C35_OrphanResponseRejected ==
    [][(trackerOp'.op = "function_call_output" /\ trackerOp'.ID = "" /\ pending = << >>) =>
           /\ trackerOp'.err # ""
           /\ items' = items
           /\ nextID' = nextID /\ pending' = pending]_vars

\* a response without ID has been rejected after the only pending call, whose
\* ID was generated, had been answered
C35_Witness ==
    /\ trackerOp.op = "function_call_output" /\ trackerOp.ID = ""
    /\ trackerOp.pendingBefore = << >> /\ trackerOp.err = "missing call id"
    /\ nextID = 1 /\ pending = << >> /\ Len(items) = 2

\* C36: a function call with an empty name fails with
\* ErrFunctionCallMissingName and leaves the call tracker unchanged: no ID is
\* generated or consumed from the counter, nothing is added to the pending
\* registry, and no item is emitted.
C36_MissingNameRejected ==
    [][(trackerOp'.op = "function_call" /\ trackerOp'.Name = "") =>
           /\ trackerOp'.err = "ErrFunctionCallMissingName"
           /\ items' = items
           /\ nextID' = nextID /\ pending' = pending]_vars

\* a call without name and without ID has been rejected while another call
\* was pending
C36_Witness ==
    /\ trackerOp.op = "function_call" /\ trackerOp.Name = "" /\ trackerOp.ID = ""
    /\ trackerOp.err = "ErrFunctionCallMissingName"
    /\ nextID = 1 /\ pending = <<GenID(0)>>

-----------------------------------------------------------------------------
(* Claims about the correlation of calls and responses in the input list,
   checked under SpecTracker *)

\* the positions of the input list that hold an item of this kind and call ID
ItemsWith(kind, id) ==
    {i \in 1..Len(items) : items[i].kind = kind /\ items[i].callID = id}

\* C33: in the input list of a conversion none of whose tracker operations
\* has failed (a failure ends the conversion without a list), every
\* function-call-output item carries the call ID of a function-call item
\* placed earlier in the list, and for each call ID the function-call-output
\* items are no more than the function-call items with that ID.
C33_OutputsCorrelateWithCalls ==
    Len(items) = nOps =>
        /\ \A j \in 1..Len(items) :
               items[j].kind = "function_call_output" =>
                   \E i \in 1..(j - 1) :
                       items[i].kind = "function_call" /\ items[i].callID = items[j].callID
        /\ \A j \in 1..Len(items) :
               Cardinality(ItemsWith("function_call_output", items[j].callID))
                   <= Cardinality(ItemsWith("function_call", items[j].callID))

\* in a list built without failure, a call that repeats an explicit ID has
\* been answered by ID twice, after a call with a generated ID
C33_Witness ==
    /\ nOps = 4 /\ Len(items) = 4
    /\ items[1].kind = "function_call" /\ items[1].callID = "a"
    /\ items[2].kind = "function_call" /\ items[2].callID = "a"
    /\ items[3].kind = "function_call_output" /\ items[3].callID = "a"
    /\ items[4].kind = "function_call_output" /\ items[4].callID = "a"

-----------------------------------------------------------------------------
(* Claims about the consumer's stop in both generate paths, checked under
   SpecGenerate *)

\* C37: once a yield has returned false, on an aggregated response, on an
\* error item or on the final flushed response, the producer has returned and
\* yields nothing more.
C37_NoYieldAfterStop ==
    [][stopped # "no" => pc = "done" /\ out' = out /\ stopped' = stopped]_vars

\* the consumer has stopped in the loop over the aggregated responses of the
\* second event, with the stream still open
C37_Witness ==
    /\ genOp.called /\ genOp.stream
    /\ stopped = "loop" /\ pc = "done"
    /\ Len(fed) = 2 /\ Len(out) >= 2 /\ queue # << >>
    /\ exhausted = "no"

-----------------------------------------------------------------------------
(* Claims about the isolation of the argument buffers, checked under
   SpecTranslator *)

\* C34 (as claimed): whatever deltas of other item identifiers, the empty one
\* included, are interleaved with the deltas of an item, the done event of
\* the item is answered as by a translator that has received the deltas of
\* that item alone: the arguments emitted depend on the item's own deltas
\* only and hold no text of another item.
C34_BuffersIsolated ==
    [][LET e == processOp'.evt
           own == received[e.ItemID]
           alone == IF own = << >> THEN newStreamTranslator
                    ELSE buffer(newStreamTranslator, e.ItemID, own)
       IN  e.Type = responseFunctionCallArgumentsDone =>
               /\ processOp'.resp = process(alone, e).resp
               /\ processOp'.err = process(alone, e).err]_vars

-----------------------------------------------------------------------------
(* Claims about the agent tree, checked under SpecAgents *)

\* C39 (as claimed): a call of New that fails because a listed sub-agent
\* already has a parent has set the parent of none of the sub-agents listed in
\* the call; and in every reachable state an agent that has a parent is listed
\* among the sub-agents of that parent.
C39_NewIsAllOrNothing ==
    /\ [](\A i \in 1..Len(agents) :
             agents[i].parent # Nil =>
                 \E k \in 1..Len(agents[agents[i].parent[1]].subAgents) :
                     agents[agents[i].parent[1]].subAgents[k] = i)
    /\ [][(agentOp'.op = "New" /\ agentOp'.err # "") =>
              \A k \in 1..Len(agentOp'.cfg.SubAgents) :
                  agents'[agentOp'.cfg.SubAgents[k]].parent
                      = agents[agentOp'.cfg.SubAgents[k]].parent]_vars

\* the agents on the parent chain from the agent this pointer points to up
\* to the root
RECURSIVE ParentChain(_)
ParentChain(p) == IF p = Nil THEN {} ELSE {p[1]} \cup ParentChain(agents[p[1]].parent)

\* C40 (as claimed): isTransferableAcrossAgentTree(a) returns true exactly
\* when every agent on the parent chain from a up to the root is an LLM agent
\* that does not disallow transfer to its parent.
C40_TransferableIffWholeChainAllows ==
    agentOp.op = "isTransferableAcrossAgentTree" =>
        (agentOp.result <=>
            \A x \in ParentChain(agentOp.a) :
                agents[x].llm /\ ~agents[x].DisallowTransferToParent)

-----------------------------------------------------------------------------
(* Claims about the session log of Runner.Run, checked under SpecRunner *)

\* the places of the history at which AppendEvent is called with, and at
\* which yield is given, the event of the k-th item of the agent
AppendsOf(k) ==
    {i \in 1..Len(runLog) : runLog[i].op = "AppendEvent" /\ runLog[i].event = arrived[k].event}
YieldsOf(k) ==
    {j \in 1..Len(runLog) : runLog[j].op = "yield" /\ runLog[j].event = arrived[k].event}

\* C38: Run appends an event of the agent to the session if and only if the
\* event arrived without error and is not partial; the append comes before the
\* yield of that event; and if the append fails the event is not yielded and
\* the run ends with an error as its last item.
C38_AppendBeforeYield ==
    \A k \in 1..Len(arrived) :
        LET committed == /\ arrived[k].err = ""
                         /\ ~(/\ arrived[k].event[1].LLMResponse # Nil
                              /\ arrived[k].event[1].LLMResponse[1].Partial)
        IN  /\ arrived[k].event # Nil => (AppendsOf(k) # {} <=> committed)
            /\ arrived[k].event # Nil => \A i \in AppendsOf(k), j \in YieldsOf(k) : i < j
            /\ committed =>
                  \A i \in AppendsOf(k) :
                      IF runLog[i].err = ""
                      THEN YieldsOf(k) = {i + 1}
                      ELSE /\ YieldsOf(k) = {}
                           /\ runPc = "done" /\ Len(runLog) = i + 1
                           /\ runLog[i + 1].op = "yield" /\ runLog[i + 1].event = Nil
                           /\ runLog[i + 1].err # ""

\* a partial event has been yielded without being appended, the next event
\* has been appended and then yielded, and the append of a third has failed
C38_Witness ==
    /\ Len(arrived) = 3 /\ runPc = "done"
    /\ arrived[1].event # Nil /\ arrived[1].err = ""
    /\ arrived[1].event[1].LLMResponse = Ptr([Partial |-> TRUE])
    /\ AppendsOf(1) = {} /\ YieldsOf(1) = {2}
    /\ AppendsOf(2) = {3} /\ YieldsOf(2) = {4}
    /\ AppendsOf(3) = {5} /\ runLog[5].err # "" /\ YieldsOf(3) = {}

====
